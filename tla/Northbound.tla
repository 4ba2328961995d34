---------------------------- MODULE Northbound ----------------------------
(***************************************************************************)
(* The management front ends and the objects they write:                   *)
(*   danos-mgmt/src/gnmi/gnmi_grpc.c     gNMI Set (gnmi_handle_set)        *)
(*   danos-mgmt/src/gnmi/model_routes.c  composite static routes           *)
(*   danos-mgmt/src/gnmi/model_paths.c   leaf validation                   *)
(*   danos-mgmt/src/gnmi/gnmi.c          the REST-style handlers           *)
(*   danos-mgmt/src/netconf/netconf.c    edit-config                       *)
(*   danos-mgmt/src/cli/cli.c            configure mode                    *)
(*   danos-core/src/object/dpa_objects.c the DPA calls they end in         *)
(*                                                                         *)
(* Every connection has its thread, so sessions interleave.  The object    *)
(* registry's lock is held for one call (a create, an update, a delete, a  *)
(* read, or one whole iteration): that is a step here.  Nothing is held    *)
(* between two calls, a transaction excludes nobody before its commit, and *)
(* an abort does not undo what the calls wrote.                            *)
(*                                                                         *)
(* A static route is three kinds of object: the route names a next-hop     *)
(* group, the group names next hops, and only next hops name gateways.     *)
(***************************************************************************)
EXTENDS Integers, Sequences, FiniteSets

CONSTANTS Sessions,      \* client connections
          Requests,      \* the requests clients send, by front end: sequences of items
          MaxCalls,      \* requests per session (a bound of the model)
          CascadeMax,    \* next hops a composite delete removes, 16 in cascade_t
          SerialDeletes, \* TRUE: clients never overlap a route delete with another route call
          NoItem         \* no item in progress

ASSUME CascadeAssumption == CascadeMax \in Nat
ASSUME CallsAssumption == MaxCalls \in Nat

(***************************************************************************)
(* Items.  A route item has op "set" (one gateway), "ecmp" (a list) or     *)
(* "del"; a leaf item ("leaf") has the changes of one front end to one     *)
(* interface; the others are named for what they create or delete.         *)
(***************************************************************************)
RouteOps == {"set", "ecmp", "del"}
Fields == {"mtu", "up", "addr", "name"}
Fronts == {"gnmi", "rest", "netconf", "cli"}
Items == UNION {{r[i] : i \in DOMAIN r} : r \in UNION {Requests[f] : f \in Fronts}}

\* A request has items; gnmi_route_set_ecmp refuses an empty list of gateways, and a
\* route is only ever deleted in vrf 0.
ASSUME RequestsAssumption ==
  /\ \A f \in Fronts : \A r \in Requests[f] : r \in Seq(Items) /\ r # << >>
  /\ NoItem \notin Items
  /\ \A it \in Items :
       /\ it.op \in {"set", "ecmp"} =>
            it.gws \in Seq({it.gws[i] : i \in DOMAIN it.gws}) /\ it.gws # << >>
       /\ it.op = "set" => Len(it.gws) = 1
       /\ it.op = "del" => it.vrf = 0 /\ it.gws = << >>
       /\ it.op = "iface" => it.idx \in Nat
       /\ it.op = "restroute" => it.grp \in Nat

VARIABLES nhs,      \* DANOS_OBJ_NEXTHOP: id -> gateway
          groups,   \* DANOS_OBJ_NHGROUP: id -> sequence of next-hop ids
          routes,   \* DANOS_OBJ_ROUTE: key -> [af, grp]
          ifaces,   \* DANOS_OBJ_IFACE: ifindex -> [name, mtu, up, addr]
          tables,   \* DANOS_OBJ_ACL and DANOS_OBJ_QOS: <<kind, id>> -> contents
          gMatch,   \* g_match_prefix, g_match_vrf: file-scope, shared by all threads
          sess,     \* the state of each connection's thread
          calls,    \* requests each session has sent
          answered, \* history: the answer to each session's last route item
          refused,  \* history: some route item ended in an error
          stuck,    \* history: transactions neither committed nor aborted at return
          crashed   \* the process has died on a null pointer

objs == <<nhs, groups, routes, ifaces, tables>>
hist == <<answered, refused>>
vars == <<nhs, groups, routes, ifaces, tables, gMatch, sess, calls, answered, refused, stuck,
          crashed>>

\* danos_object_create / _update, and danos_object_delete, on one object type.
Put(f, k, v) == [x \in DOMAIN f \cup {k} |-> IF x = k THEN v ELSE f[x]]
Drop(f, k) == [x \in DOMAIN f \ {k} |-> f[x]]

\* route_key hashes vrf, address bytes, length and protocol, and not the address
\* family: an IPv4 prefix and a REST prefix (family 0, address 0) of one length
\* share a key when the IPv4 address is 0.0.0.0.
RouteKey(vrf, prefix) == <<vrf, prefix>>
ZeroPrefix == "zero"

\* max + 1 over the objects present; ids up to 100 are reserved.
MaxOf(S) == CHOOSE m \in S : \A x \in S : x <= m
IdBase == 100

next_nh_id == MaxOf(DOMAIN nhs \cup {IdBase}) + 1
next_group_id == MaxOf(DOMAIN groups \cup {IdBase}) + 1

\* A thread between requests.
Idle ==
  [pc |-> "idle", todo |-> << >>, item |-> NoItem, key |-> << >>, gid |-> 0, nid |-> 0,
   grp |-> << >>, i |-> 0, idx |-> 0, old |-> << >>]

Init ==
  /\ nhs = << >> /\ groups = << >> /\ routes = << >>
  /\ ifaces = << >> /\ tables = << >>
  /\ gMatch = << >>
  /\ sess = [s \in Sessions |-> Idle]
  /\ calls = [s \in Sessions |-> 0]
  /\ answered = [s \in Sessions |-> "none"]
  /\ refused = FALSE /\ stuck = 0 /\ crashed = FALSE

-----------------------------------------------------------------------------
(***************************************************************************)
(* Control flow of a request.                                              *)
(***************************************************************************)
At(s, where) == ~crashed /\ sess[s].pc = where
Item(s) == sess[s].item
ItemKey(s) == RouteKey(Item(s).vrf, Item(s).prefix)

\* The thread goes on at "where" with the given fields of its state changed.
Go(s, new) == sess' = [sess EXCEPT ![s] = new]
Goto(s, where) == Go(s, [sess[s] EXCEPT !.pc = where])

\* The item is answered.  An error ends the request: the items behind it are
\* dropped, the ones before it stay applied.
Finish(s, reply) ==
  /\ Go(s, IF reply = "ok" THEN [Idle EXCEPT !.pc = "next", !.todo = sess[s].todo]
                           ELSE Idle)
  /\ IF Item(s).op \in RouteOps
     THEN /\ answered' = [answered EXCEPT ![s] = reply]
          /\ refused' = (refused \/ reply = "error")
     ELSE UNCHANGED <<answered, refused>>
Keep == UNCHANGED <<calls, gMatch, stuck, crashed>>
Fail(s) == Finish(s, "error") /\ UNCHANGED objs /\ Keep

\* Where the handler of an item starts.  gnmi_route_delete is only ever called
\* with vrf 0; a numeric interface name is its own ifindex.
Start(it) ==
  CASE it.op \in {"set", "ecmp"} -> "lookup"
    [] it.op = "del" -> "match"
    [] it.op = "leaf" -> "leaf_read"
    [] it.op = "iface" -> IF it.idx = 0 THEN "if_alloc" ELSE "if_create"
    [] it.op = "ifdel" -> "if_delete"
    [] it.op = "restroute" -> "rest_route"
    [] it.op = "put" -> "put_create"
    [] OTHER -> "drop"

\* With SerialDeletes, a route delete has the route objects to itself.
MayStart(s, it) ==
  SerialDeletes =>
    \A o \in Sessions \ {s} :
      LET other == sess[o].item IN
      other # NoItem /\ other.op \in RouteOps /\ it.op \in RouteOps =>
        other.op # "del" /\ it.op # "del"

Begin(s, it, rest) ==
  /\ MayStart(s, it)
  /\ Go(s, [Idle EXCEPT !.pc = Start(it), !.item = it, !.todo = rest])
  /\ answered' = IF it.op \in RouteOps THEN [answered EXCEPT ![s] = "none"] ELSE answered

Request(s, front) ==
  /\ At(s, "idle") /\ calls[s] < MaxCalls
  /\ \E r \in Requests[front] : Begin(s, Head(r), Tail(r))
  /\ calls' = [calls EXCEPT ![s] = @ + 1]
  /\ UNCHANGED <<objs, gMatch, refused, stuck, crashed>>

\* A gNMI Set is a list of items, taken one by one, updates before deletes.
gnmi_handle_set(s) == Request(s, "gnmi")

\* One REST call: an interface, a route, an ACL table or a QoS policy.
danos_gnmi_handle_request(s) == Request(s, "rest")

\* One edit-config: the mtu, the admin state or both, of one interface, written
\* together.
edit_config_apply(s) == Request(s, "netconf")

\* One "set interface" line in configure mode (danos_cli_process passes it on only
\* then): the mtu or the admin state.
cli_cmd_set(s) == Request(s, "cli")

NextItem(s) ==
  /\ At(s, "next")
  /\ IF sess[s].todo = << >>
     THEN Go(s, Idle) /\ UNCHANGED answered
     ELSE Begin(s, Head(sess[s].todo), Tail(sess[s].todo))
  /\ UNCHANGED <<objs, refused>> /\ Keep

\* prepare, validate, commit on the handler's own record.  The commit gives up
\* when another commit holds the write lock for a second; by then the objects
\* are written, and the abort that follows takes nothing back.
Commit(s) ==
  /\ At(s, "commit")
  /\ \/ Finish(s, "ok")
     \/ (\E o \in Sessions \ {s} : sess[o].pc = "commit") /\ Finish(s, "error")
  /\ UNCHANGED objs /\ Keep

-----------------------------------------------------------------------------
(***************************************************************************)
(* Composite static routes: model_routes.c.                                *)
(***************************************************************************)

\* find_static_route, with the group's first next hop resolved under the same
\* read lock.  Only IPv4 entries match: a REST entry under the key is not found.
find_static_route(key) ==
  LET found == key \in DOMAIN routes /\ routes[key].af = 4
      gid == IF found THEN routes[key].grp ELSE 0
  IN [found |-> found, gid |-> gid,
      nid |-> IF gid \in DOMAIN groups /\ groups[gid] # << >> THEN groups[gid][1] ELSE 0]

Lookup(s) ==
  /\ At(s, "lookup")
  /\ LET lu == find_static_route(ItemKey(s))
         here == [sess[s] EXCEPT !.gid = lu.gid, !.i = 1]
     IN Go(s, IF Item(s).op = "set"
              THEN IF lu.found THEN [here EXCEPT !.pc = "nh_update", !.grp = <<lu.nid>>]
                               ELSE [here EXCEPT !.pc = "alloc_nh"]
              ELSE [here EXCEPT !.pc = IF lu.found THEN "group_read" ELSE "alloc_group"])
  /\ UNCHANGED <<objs, hist>> /\ Keep

\* ECMP update: the group must still have as many members as gateways are given.
GroupRead(s) ==
  /\ At(s, "group_read")
  /\ LET gid == sess[s].gid IN
     IF gid \in DOMAIN groups /\ Len(groups[gid]) = Len(Item(s).gws)
     THEN Go(s, [sess[s] EXCEPT !.pc = "nh_update", !.grp = groups[gid]])
          /\ UNCHANGED <<objs, hist>> /\ Keep
     ELSE Fail(s)

\* The next hop an update writes: member i of the group that was read.
\* Mutant: every gateway is written to the first member.
FirstNhTarget(s) == sess[s].grp[1]

NhTarget(s) == sess[s].grp[sess[s].i]

\* danos_nh_update for member i; after the last one, the commit.
NhUpdate(s) ==
  LET i == sess[s].i IN
  /\ At(s, "nh_update")
  /\ IF NhTarget(s) \in DOMAIN nhs
     THEN /\ nhs' = Put(nhs, NhTarget(s), Item(s).gws[i])
          /\ Go(s, [sess[s] EXCEPT !.i = i + 1,
                                   !.pc = IF i = Len(sess[s].grp) THEN "commit" ELSE @])
          /\ UNCHANGED <<groups, routes, ifaces, tables, hist>> /\ Keep
     ELSE Fail(s)

\* next_group_id: an iteration of its own, before or after the next hop's.
AllocGroup(s) ==
  /\ At(s, "alloc_group")
  /\ Go(s, [sess[s] EXCEPT !.gid = next_group_id,
                           !.pc = IF Item(s).op = "set" THEN "nh_create" ELSE "alloc_nh"])
  /\ UNCHANGED <<objs, hist>> /\ Keep

\* next_nh_id() in gnmi_route_set, next_nh_id() + i in gnmi_route_set_ecmp.
AllocNh(s) ==
  /\ At(s, "alloc_nh")
  /\ Go(s, [sess[s] EXCEPT !.nid = next_nh_id + sess[s].i - 1,
                           !.pc = IF Item(s).op = "set" THEN "alloc_group" ELSE "nh_create"])
  /\ UNCHANGED <<objs, hist>> /\ Keep

\* danos_nh_create; the group is created after the last next hop.
\* Mutant: the route follows the next hops and the group is left out.
NhCreateNoGroup(s) ==
  LET i == sess[s].i  nid == sess[s].nid IN
  /\ At(s, "nh_create")
  /\ IF nid \in DOMAIN nhs THEN Fail(s) ELSE
     /\ nhs' = Put(nhs, nid, Item(s).gws[i])
     /\ Go(s, [sess[s] EXCEPT !.i = i + 1, !.grp = Append(@, nid),
                              !.pc = IF i = Len(Item(s).gws) THEN "route_create" ELSE "alloc_nh"])
     /\ UNCHANGED <<groups, routes, ifaces, tables, hist>> /\ Keep

NhCreate(s) ==
  LET i == sess[s].i  nid == sess[s].nid IN
  /\ At(s, "nh_create")
  /\ IF nid \in DOMAIN nhs THEN Fail(s) ELSE
     /\ nhs' = Put(nhs, nid, Item(s).gws[i])
     /\ Go(s, [sess[s] EXCEPT !.i = i + 1, !.grp = Append(@, nid),
                              !.pc = IF i = Len(Item(s).gws) THEN "group_create" ELSE "alloc_nh"])
     /\ UNCHANGED <<groups, routes, ifaces, tables, hist>> /\ Keep

GroupCreate(s) ==
  LET gid == sess[s].gid IN
  /\ At(s, "group_create")
  /\ IF gid \in DOMAIN groups THEN Fail(s) ELSE
     /\ groups' = Put(groups, gid, sess[s].grp)
     /\ Goto(s, "route_create")
     /\ UNCHANGED <<nhs, routes, ifaces, tables, hist>> /\ Keep

\* The route comes last: whoever can see it can resolve it.
RouteCreate(s) ==
  /\ At(s, "route_create")
  /\ IF ItemKey(s) \in DOMAIN routes THEN Fail(s) ELSE
     /\ routes' = Put(routes, ItemKey(s), [af |-> 4, grp |-> sess[s].gid])
     /\ Goto(s, "commit")
     /\ UNCHANGED <<nhs, groups, ifaces, tables, hist>> /\ Keep

\* gnmi_route_delete: the wanted key goes into file-scope variables, which the
\* iteration's callback reads.
DelMatch(s) ==
  /\ At(s, "match")
  /\ gMatch' = RouteKey(0, Item(s).prefix)
  /\ Goto(s, "collect")
  /\ UNCHANGED <<objs, calls, hist, stuck, crashed>>

DelCollect(s) ==
  /\ At(s, "collect")
  /\ IF find_static_route(gMatch).found
     THEN Go(s, [sess[s] EXCEPT !.pc = "del_read", !.key = gMatch, !.gid = routes[gMatch].grp])
          /\ UNCHANGED hist
     ELSE Finish(s, "ok")
  /\ UNCHANGED objs /\ Keep

\* The members are remembered before anything is deleted.
DelRead(s) ==
  /\ At(s, "del_read")
  /\ LET have == sess[s].gid \in DOMAIN groups IN
     Go(s, [sess[s] EXCEPT !.pc = "del_route", !.i = 1,
                           !.grp = IF have THEN groups[sess[s].gid] ELSE << >>])
  /\ UNCHANGED <<objs, hist>> /\ Keep

\* Route, then group, then next hops: every reference goes before its target.
DelRoute(s) ==
  /\ At(s, "del_route")
  /\ IF sess[s].key \notin DOMAIN routes THEN Fail(s) ELSE
     /\ routes' = Drop(routes, sess[s].key)
     /\ Goto(s, IF sess[s].grp = << >> THEN "commit" ELSE "del_group")
     /\ UNCHANGED <<nhs, groups, ifaces, tables, hist>> /\ Keep

DelGroup(s) ==
  /\ At(s, "del_group")
  /\ IF sess[s].gid \notin DOMAIN groups THEN Fail(s) ELSE
     /\ groups' = Drop(groups, sess[s].gid)
     /\ Goto(s, "del_nh")
     /\ UNCHANGED <<nhs, routes, ifaces, tables, hist>> /\ Keep

\* At most CascadeMax next hops go; a delete that finds nothing is ignored.
\* Mutant: the last next hop is left behind.
CascadeShort(s) == sess[s].i < Len(sess[s].grp) /\ sess[s].i <= CascadeMax

CascadeMore(s) == sess[s].i <= Len(sess[s].grp) /\ sess[s].i <= CascadeMax

DelNh(s) ==
  LET i == sess[s].i IN
  /\ At(s, "del_nh")
  /\ IF CascadeMore(s)
     THEN nhs' = Drop(nhs, sess[s].grp[i]) /\ Go(s, [sess[s] EXCEPT !.i = i + 1])
     ELSE UNCHANGED nhs /\ Goto(s, "commit")
  /\ UNCHANGED <<groups, routes, ifaces, tables, hist>> /\ Keep

\* handle_set_route: only the prefix length is read from the body, the address
\* stays 0 and the family 0; that the group exists is not checked.
RestRoute(s) ==
  LET key == RouteKey(0, ZeroPrefix) IN
  /\ At(s, "rest_route")
  /\ IF key \in DOMAIN routes THEN Fail(s) ELSE
     /\ routes' = Put(routes, key, [af |-> 0, grp |-> Item(s).grp])
     /\ Goto(s, "commit")
     /\ UNCHANGED <<nhs, groups, ifaces, tables, hist>> /\ Keep

-----------------------------------------------------------------------------
(***************************************************************************)
(* Interfaces.  A leaf write reads the whole object, changes the fields    *)
(* given and writes the whole object back: gnmi_handle_set one leaf,       *)
(* edit_config_apply up to two, cli_cmd_set one.                           *)
(***************************************************************************)

\* gnmi_model_apply_leaf: an mtu is a number in 68..9216, admin state a boolean,
\* an address a well-formed prefix; every other field is refused.
MtuMin == 68
MtuMax == 9216
LeafOk(field, val) ==
  \/ field = "mtu" /\ MtuMin <= val /\ val <= MtuMax
  \/ field \in {"up", "addr"}

\* The changes of an item: a partial function from fields to values.
\* Mutant: the object written back is built from defaults, not from the read.
apply_fresh(rec, chg) ==
  [f \in Fields |-> IF f \in DOMAIN chg THEN chg[f] ELSE
                    IF f = "mtu" THEN 1500 ELSE rec[f]]

apply_leaf(rec, chg) == [f \in Fields |-> IF f \in DOMAIN chg THEN chg[f] ELSE rec[f]]

\* The interface is looked up by name; two of one name are told apart by the
\* iteration order alone.
LeafRead(s) ==
  LET it == Item(s)
      named == {x \in DOMAIN ifaces : ifaces[x].name = it.name}
  IN
  /\ At(s, "leaf_read")
  /\ \/ /\ named = {} \/ \E f \in DOMAIN it.chg : ~LeafOk(f, it.chg[f])
        /\ Fail(s)
     \/ /\ \A f \in DOMAIN it.chg : LeafOk(f, it.chg[f])
        /\ \E x \in named :
             Go(s, [sess[s] EXCEPT !.pc = "leaf_write", !.idx = x, !.old = ifaces[x]])
        /\ UNCHANGED <<objs, hist>> /\ Keep

LeafWrite(s) ==
  LET x == sess[s].idx IN
  /\ At(s, "leaf_write")
  /\ IF x \notin DOMAIN ifaces THEN Fail(s) ELSE
     /\ ifaces' = Put(ifaces, x, apply_leaf(sess[s].old, Item(s).chg))
     /\ Finish(s, "ok")
     /\ UNCHANGED <<nhs, groups, routes, tables>> /\ Keep

\* A Set on /interfaces/interface[name] with a name that is not a number takes
\* the highest ifindex + 1, whether or not the name is in use.
IfAlloc(s) ==
  /\ At(s, "if_alloc")
  /\ Go(s, [sess[s] EXCEPT !.pc = "if_create", !.idx = MaxOf(DOMAIN ifaces \cup {0}) + 1])
  /\ UNCHANGED <<objs, hist>> /\ Keep

\* danos_iface_create, from gNMI or REST.  The mtu is cut to 16 bits and is not
\* held to the range that a leaf write is held to.
IfCreate(s) ==
  LET it == Item(s)
      x == IF it.idx = 0 THEN sess[s].idx ELSE it.idx
  IN
  /\ At(s, "if_create")
  /\ IF x \in DOMAIN ifaces THEN Fail(s) ELSE
     /\ ifaces' = Put(ifaces, x, [f \in Fields |->
                        IF f = "name" THEN it.name ELSE
                        IF f = "mtu" THEN it.mtu % 65536 ELSE
                        IF f = "up" THEN TRUE ELSE "none"])
     /\ Goto(s, "commit")
     /\ UNCHANGED <<nhs, groups, routes, tables, hist>> /\ Keep

\* A delete of an interface, or of its address: collect_objects falls back to the
\* default store, the write goes to ss->desired, and ss is null in the daemon.
IfDelete(s) ==
  /\ At(s, "if_delete")
  /\ IF \E x \in DOMAIN ifaces : ifaces[x].name = Item(s).name
     THEN /\ crashed' = TRUE
          /\ UNCHANGED <<objs, gMatch, sess, calls, hist, stuck>>
     ELSE Fail(s)

-----------------------------------------------------------------------------
(***************************************************************************)
(* REST handlers for ACL tables and QoS policies.                          *)
(***************************************************************************)
TableKey(s) == <<Item(s).kind, Item(s).id>>

\* handle_set_acl_table, handle_set_qos_policy: create, and on
\* DANOS_ERR_EXISTS update, two registry calls.
PutCreate(s) ==
  /\ At(s, "put_create")
  /\ IF TableKey(s) \in DOMAIN tables
     THEN Goto(s, "put_update") /\ UNCHANGED tables
     ELSE tables' = Put(tables, TableKey(s), Item(s).val) /\ Goto(s, "commit")
  /\ UNCHANGED <<nhs, groups, routes, ifaces, hist>> /\ Keep

PutUpdate(s) ==
  /\ At(s, "put_update")
  /\ IF TableKey(s) \notin DOMAIN tables THEN Fail(s) ELSE
     /\ tables' = Put(tables, TableKey(s), Item(s).val)
     /\ Goto(s, "commit")
     /\ UNCHANGED <<nhs, groups, routes, ifaces, hist>> /\ Keep

\* handle_delete_acl_table, handle_delete_qos_policy: danos_tx_commit is called in
\* state PREPARE and always refuses; the object is gone, the answer is an error and
\* the transaction stays open.
DropTable(s) ==
  /\ At(s, "drop")
  /\ IF TableKey(s) \notin DOMAIN tables THEN Fail(s) ELSE
     /\ tables' = Drop(tables, TableKey(s))
     /\ Finish(s, "error")
     /\ stuck' = stuck + 1
     /\ UNCHANGED <<nhs, groups, routes, ifaces, calls, gMatch, crashed>>

Next == \E s \in Sessions :
  \/ gnmi_handle_set(s) \/ danos_gnmi_handle_request(s) \/ edit_config_apply(s) \/ cli_cmd_set(s)
  \/ NextItem(s) \/ Commit(s)
  \/ Lookup(s) \/ GroupRead(s) \/ NhUpdate(s)
  \/ AllocGroup(s) \/ AllocNh(s) \/ NhCreate(s) \/ GroupCreate(s) \/ RouteCreate(s)
  \/ DelMatch(s) \/ DelCollect(s) \/ DelRead(s) \/ DelRoute(s) \/ DelGroup(s) \/ DelNh(s)
  \/ RestRoute(s)
  \/ LeafRead(s) \/ LeafWrite(s) \/ IfAlloc(s) \/ IfCreate(s) \/ IfDelete(s)
  \/ PutCreate(s) \/ PutUpdate(s) \/ DropTable(s)

Spec == Init /\ [][Next]_vars

-----------------------------------------------------------------------------
(***************************************************************************)
(* Properties.                                                             *)
(***************************************************************************)

\* The routes gNMI wrote (find_static_route matches IPv4 entries only).
StaticKeys == {k \in DOMAIN routes : routes[k].af = 4}

\* A static route can be resolved at every moment, with sessions writing and
\* withdrawing routes at the same time: its group exists and so does every next
\* hop of the group.  Creation goes next hops, group, route; deletion the other
\* way round; and ids are never reused while someone still refers to them.
RouteResolves ==
  \A k \in StaticKeys :
    /\ routes[k].grp \in DOMAIN groups
    /\ \A i \in DOMAIN groups[routes[k].grp] : groups[routes[k].grp][i] \in DOMAIN nhs

\* While every route request was answered with success, next hops and groups
\* exist only for routes: no request, in whatever order its steps fell among
\* those of others, leaves garbage behind without saying that it failed.
NoSilentLeak ==
  ~refused /\ (\A s \in Sessions : Item(s) # NoItem => Item(s).op \notin RouteOps) =>
    /\ DOMAIN groups = {routes[k].grp : k \in StaticKeys}
    /\ DOMAIN nhs = UNION {{groups[g][i] : i \in DOMAIN groups[g]} : g \in DOMAIN groups}

\* A leaf write never removes or renames an interface, and changes a field it was
\* not asked to change only when another writer changed that field after it was
\* read: the read-modify-write of the whole object loses that writer's update.
LeafFrame ==
  [][\A x \in DOMAIN ifaces :
       /\ x \in DOMAIN ifaces' /\ ifaces'[x].name = ifaces[x].name
       /\ \A f \in Fields : ifaces'[x][f] # ifaces[x][f] =>
            \E s \in Sessions :
              /\ sess[s].pc = "leaf_write" /\ sess[s].idx = x
              /\ f \in DOMAIN Item(s).chg \/ sess[s].old[f] # ifaces[x][f]]_vars

\* What a reader makes of a next hop: its gateway, or "none".
Gateway(n) == IF n \in DOMAIN nhs THEN nhs[n] ELSE "none"

\* gnmi_route_to_json, for all members of the group.
RouteGateways(k) ==
  LET g == routes[k].grp IN
  IF g \notin DOMAIN groups THEN << >>
  ELSE [i \in DOMAIN groups[g] |-> Gateway(groups[g][i])]

\* How much of its route item a thread has done to the table.
Effect(s) ==
  LET pc == sess[s].pc IN
  IF Item(s) = NoItem \/ Item(s).op \notin RouteOps THEN 0
  ELSE IF Item(s).op = "del" THEN IF pc \in {"del_group", "del_nh", "commit"} THEN 1 ELSE 0
  ELSE IF pc = "nh_update" THEN sess[s].i - 1
  ELSE IF pc = "commit" THEN Len(Item(s).gws) ELSE 0

RouteRequest(it) == [key |-> RouteKey(it.vrf, it.prefix), gws |-> it.gws]

\* The abstract state: the table, the outstanding requests and their effect.  No route has
\* the empty key, so NoRequest is none of the requests.
NoRequest == [key |-> << >>, gws |-> << >>]
Installed == [k \in StaticKeys |-> RouteGateways(k)]
Asked == [s \in Sessions |-> IF Item(s) # NoItem /\ Item(s).op \in RouteOps
                             THEN RouteRequest(Item(s)) ELSE NoRequest]
Done == [s \in Sessions |-> Effect(s)]

Table == INSTANCE RouteTable WITH
  Requests <- {RouteRequest(it) : it \in {x \in Items : x.op \in RouteOps}},
  NoCall <- NoRequest, table <- Installed, asked <- Asked, done <- Done, answer <- answered

\* The composite handlers implement the route table: whatever the interleaving,
\* a step changes what at most one key resolves to, and only as an outstanding
\* request for that key asks; a new route appears with all of its gateways at
\* once; success is answered only for a request whose whole effect took place.
ImplementsRouteTable == Table!Spec
=============================================================================
