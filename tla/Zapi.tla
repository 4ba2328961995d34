-------------------------------- MODULE Zapi --------------------------------
(***************************************************************************)
(* Learning routes from zebra:                                             *)
(*   danos-fib/src/session/zebra_session.c  the session                    *)
(*   danos-fib/src/zapi/zapi_parse.c        frames and route messages      *)
(*   danos-fib/src/mapper/zapi_mapper.c     messages to DPA objects        *)
(*   danos-test/fib_live_bridge.c           the loop that drives them      *)
(*                                                                         *)
(* Zebra (external) holds a RIB.  To a registered client it sends the RIB  *)
(* and then every change; it may die between two frames or in the middle   *)
(* of one, and changes that happen while nobody is registered are told to  *)
(* nobody.  What the loop does to VPP with the routes is module Bridge.    *)
(***************************************************************************)
EXTENDS Integers, Sequences, FiniteSets

CONSTANTS ZPrefixes,      \* prefixes, one protocol each
          PathLists,      \* the gateways of an announcement; << >> is a blackhole
          Reconnecting,   \* --reconnect
          ZInitDelay,     \* RECONNECT_INITIAL_MS, in ticks
          ZMaxDelay,      \* RECONNECT_MAX_MS, in ticks
          Legacy,         \* messages handed to zapi_dispatch
          MaxUnread,      \* unread frames (a bound of the model)
          MaxChanges,     \* changes of the RIB (a bound of the model)
          MaxZebraDeaths, \* crashes of zebra (a bound of the model)
          MaxLegacy,      \* messages to zapi_dispatch (a bound of the model)
          NoRoute

IsPathList(gws) == gws \in Seq({gws[i] : i \in DOMAIN gws})

\* Announcements list gateways; a payload ends after some of those it announces.
ASSUME ZapiAssumption ==
  /\ ZPrefixes # {} /\ NoRoute \notin PathLists
  /\ \A gws \in PathLists : IsPathList(gws)
  /\ \A m \in Legacy : m.cmd \in {"route_add", "route_del"} =>
       m.p \in ZPrefixes /\ IsPathList(m.gws) /\ m.made \in 0..Len(m.gws)

VARIABLES rib,         \* zebra's routes: prefix -> gateways or NoRoute
          zebraUp, zebraDeaths, changes,
          registered,  \* zebra has this client registered
          toReplay,    \* prefixes of the RIB it has yet to send
          stream,      \* frames the client has not read
          half,        \* the stream ends in part of a frame
          zsock,       \* g_session.fd: "none", "open", or "closed" by zebra
          zstate,      \* g_session.state
          zdelay, zelapsed,
          zpc,         \* where the loop is; "done": the program has ended;
                       \* "legacy": a program that feeds zapi_dispatch instead
          nhObjs,      \* DANOS_OBJ_NEXTHOP: id -> gateway
          grpObjs,     \* DANOS_OBJ_NHGROUP: id -> sequence of ids
          routeObjs,   \* DANOS_OBJ_ROUTE: prefix -> group id, 0 without one
          otherObjs,   \* interfaces, BFD sessions and LSPs: <<kind, id>> -> contents
          nextId,      \* g_zapi_next_id
          legacies,    \* what MaxLegacy counts
          said,        \* history: the gateways announced for each prefix
          missed       \* history: prefixes withdrawn without the client being told

zebra == <<rib, zebraUp, zebraDeaths, changes, registered, toReplay>>
channel == <<stream, half, zsock>>
session == <<zstate, zdelay, zelapsed>>
paths == <<nhObjs, grpObjs, nextId>>
store == <<paths, routeObjs, otherObjs>>
zHist == <<legacies, said, missed>>
zapiVars == <<zebra, channel, session, zpc, store, zHist>>

ZapiInit ==
  /\ rib = [p \in ZPrefixes |-> NoRoute] /\ zebraUp = TRUE /\ zebraDeaths = 0 /\ changes = 0
  /\ registered = FALSE /\ toReplay = {}
  /\ stream = << >> /\ half = FALSE /\ zsock = "none"
  /\ zstate = "down" /\ zdelay = ZInitDelay /\ zelapsed = ZMaxDelay
  /\ zpc \in {"connect", "legacy"}
  /\ nhObjs = << >> /\ grpObjs = << >> /\ routeObjs = << >> /\ otherObjs = << >>
  /\ nextId = 1000 /\ legacies = 0
  /\ said = [p \in ZPrefixes |-> {}] /\ missed = {}

-----------------------------------------------------------------------------
(* Zebra. *)

Msg(cmd, p, gws) == [cmd |-> cmd, p |-> p, gws |-> gws]

\* A route comes, changes or goes.
RibChange(p) ==
  /\ changes < MaxChanges /\ changes' = changes + 1
  /\ toReplay = {} /\ (registered => Len(stream) < MaxUnread)
  /\ \E g \in (PathLists \cup {NoRoute}) \ {rib[p]} :
       /\ rib' = [rib EXCEPT ![p] = g]
       /\ stream' = IF ~registered THEN stream
                    ELSE Append(stream, IF g = NoRoute THEN Msg("del", p, << >>)
                                                       ELSE Msg("add", p, g))
       /\ said' = IF g = NoRoute THEN said ELSE [said EXCEPT ![p] = @ \cup {g}]
       /\ missed' = IF g = NoRoute /\ ~registered THEN missed \cup {p} ELSE missed
  /\ UNCHANGED <<zebraUp, zebraDeaths, registered, toReplay, half, zsock, session, zpc, store,
                 legacies>>

\* The RIB is sent to a client that has registered.
RibReplay(p) ==
  /\ p \in toReplay /\ Len(stream) < MaxUnread
  /\ toReplay' = toReplay \ {p}
  /\ stream' = Append(stream, Msg("add", p, rib[p]))
  /\ UNCHANGED <<rib, zebraUp, zebraDeaths, changes, registered, half, zsock, session, zpc,
                 store, zHist>>

\* Messages that are no IPv4 route of the redistribution: interfaces and router id
\* ("other"), IPv6 routes, route messages that do not decode, the native commands 9
\* and 10, and frames whose marker or version is wrong ("bad").
Noise == {"other", "ipv6", "undecodable", "native", "bad"}
ZebraNoise ==
  /\ registered /\ stream = << >>
  /\ \E c \in Noise : stream' = <<Msg(c, CHOOSE p \in ZPrefixes : TRUE, << >>)>>
  /\ UNCHANGED <<zebra, half, zsock, session, zpc, store, zHist>>

\* The withdrawals among frames that will not be read.
Withdrawals(s) == {s[i].p : i \in {j \in DOMAIN s : s[j].cmd = "del"}}

\* Zebra dies: its end of the connection closes, possibly within the last frame.
ZebraDies ==
  /\ zebraUp /\ zebraDeaths < MaxZebraDeaths
  /\ zebraUp' = FALSE /\ zebraDeaths' = zebraDeaths + 1
  /\ registered' = FALSE /\ toReplay' = {}
  /\ zsock' = IF zsock = "open" THEN "closed" ELSE zsock
  /\ \/ UNCHANGED <<stream, half, missed>>
     \/ /\ stream # << >> /\ half' = TRUE
        /\ stream' = SubSeq(stream, 1, Len(stream) - 1)
        /\ missed' = missed \cup Withdrawals(<<stream[Len(stream)]>>)
  /\ UNCHANGED <<rib, changes, session, zpc, store, legacies, said>>

ZebraRises ==
  /\ ~zebraUp /\ zebraUp' = TRUE
  /\ UNCHANGED <<rib, zebraDeaths, changes, registered, toReplay, channel, session, zpc, store,
                 zHist>>

-----------------------------------------------------------------------------
(* The session, as the loop of the bridge drives it. *)

\* Mutant: a session that is up again is taken to be registered.
ConnectUnregistered ==
  /\ zpc = "connect" /\ zelapsed >= zdelay /\ zebraUp
  /\ zsock' = "open" /\ stream' = << >> /\ half' = FALSE
  /\ zstate' = "up" /\ zdelay' = ZInitDelay /\ zelapsed' = 0
  /\ zpc' = IF zebraDeaths = 0 THEN "register" ELSE "poll"
  /\ UNCHANGED <<zebra, store, zHist>>

\* danos_zebra_session_connect and _reconnect.
ZConnect ==
  /\ zpc = "connect" /\ zelapsed >= zdelay
  /\ \/ /\ zebraUp
        /\ zsock' = "open" /\ stream' = << >> /\ half' = FALSE
        /\ zstate' = "up" /\ zdelay' = ZInitDelay /\ zelapsed' = 0
        /\ zpc' = "register"
     \/ /\ zdelay' = (IF 2 * zdelay > ZMaxDelay THEN ZMaxDelay ELSE 2 * zdelay)
        /\ zelapsed' = 0
        /\ zpc' = IF Reconnecting THEN zpc ELSE "done"
        /\ UNCHANGED <<channel, zstate>>
  /\ UNCHANGED <<zebra, store, zHist>>

ZTick ==
  /\ zpc = "connect" /\ zelapsed < ZMaxDelay /\ zelapsed' = zelapsed + 1
  /\ UNCHANGED <<zebra, channel, zstate, zdelay, zpc, store, zHist>>

\* danos_zebra_session_register: HELLO, the router id, the interfaces and the route
\* types to be redistributed, one frame each.  A write that fails ends the program.
ZRegister ==
  /\ zpc = "register"
  /\ IF zsock = "open"
     THEN /\ registered' = TRUE /\ toReplay' = {p \in ZPrefixes : rib[p] # NoRoute}
          /\ zpc' = "poll"
     ELSE zpc' = "done" /\ UNCHANGED <<registered, toReplay>>
  /\ UNCHANGED <<rib, zebraUp, zebraDeaths, changes, channel, session, store, zHist>>

\* danos_zebra_session_recv_frr, up to poll.  A hang-up ends the session at once,
\* with whatever frames had arrived before it; no data within 500 ms changes nothing.
ZPoll ==
  /\ zpc = "poll"
  /\ \/ /\ zsock = "closed"
        /\ zsock' = "none" /\ stream' = << >> /\ half' = FALSE /\ zstate' = "down"
        /\ missed' = missed \cup Withdrawals(stream)
        /\ zpc' = IF Reconnecting THEN "connect" ELSE "done"
     \/ /\ zsock = "open" /\ stream # << >>
        /\ zpc' = "read" /\ UNCHANGED <<channel, zstate, missed>>
  /\ UNCHANGED <<zebra, zdelay, zelapsed, store, legacies, said>>

-----------------------------------------------------------------------------
(* Messages to objects: zapi_dispatch_frr. *)

Extend(f, g) == [x \in DOMAIN f \cup DOMAIN g |-> IF x \in DOMAIN g THEN g[x] ELSE f[x]]
Without(f, x) == [y \in DOMAIN f \ {x} |-> f[y]]
One(x, v) == [y \in {x} |-> v]

\* The ids of a group and its n members come off one counter, group first.
Members(n) == [i \in 1..n |-> nextId + i]

\* Next hops for the first "made" gateways; the group, once all are there.  A next
\* hop that does not decode has its id already or not, as the payload ends.
CreatePaths(gws, made) ==
  LET ids == Members(Len(gws)) IN
  /\ nhObjs' = Extend(nhObjs, [x \in {ids[i] : i \in 1..made} |->
                                 gws[CHOOSE i \in 1..made : ids[i] = x]])
  /\ grpObjs' = IF made = Len(gws) THEN Extend(grpObjs, One(nextId, ids)) ELSE grpObjs
  /\ nextId' \in {nextId + 1 + made} \cup (IF made < Len(gws) THEN {nextId + 2 + made} ELSE {})

\* danos_route_create refuses a key that is there; the next hops and the group made
\* for it stay, the route keeps its old ones.
CreateRoute(p, gws) ==
  /\ IF gws = << >> THEN UNCHANGED paths ELSE CreatePaths(gws, Len(gws))
  /\ routeObjs' = IF p \in DOMAIN routeObjs THEN routeObjs
                  ELSE Extend(routeObjs, One(p, IF gws = << >> THEN 0 ELSE nextId))

\* danos_route_delete: the route alone.
\* Mutant: only a route with next hops is deleted.
DeleteUnlessBlackhole(p) ==
  routeObjs' = IF p \in DOMAIN routeObjs /\ routeObjs[p] # 0 THEN Without(routeObjs, p) ELSE routeObjs

DeleteRoute(p) == routeObjs' = Without(routeObjs, p)

\* zapi_parse_frr: the marker, the version and the length of the header.
zapi_parse_frr(m) == m.cmd # "bad"

\* zapi_decode_frr_route: the flags, the prefix and the next hops of a route message
\* are decoded before any object is made.
zapi_decode_frr_route(m) == m.cmd # "undecodable"

zapi_dispatch_frr(m) ==
  \/ m.cmd = "add" /\ CreateRoute(m.p, m.gws) /\ UNCHANGED missed
  \/ m.cmd = "del" /\ DeleteRoute(m.p) /\ missed' = missed \ {m.p} /\ UNCHANGED paths
  \/ (m.cmd = "ipv6" \/ ~zapi_decode_frr_route(m)) /\ UNCHANGED <<paths, routeObjs, missed>>

\* The body of the loop: commands 31 and 32 go to zapi_dispatch_frr, 9 and 10 to
\* zapi_dispatch, which knows neither number, others nowhere.  The status is
\* counted and the loop goes on.
BridgeMessage(m) ==
  \/ zapi_dispatch_frr(m)
  \/ m.cmd \in {"native", "other"} /\ UNCHANGED <<paths, routeObjs, missed>>

\* danos_zebra_session_recv_frr from the header on.  A frame cut short ends the
\* program, even with --reconnect; a whole one that does not parse ends it without.
ZRead ==
  /\ zpc = "read"
  /\ IF stream = << >>
     THEN zpc' = "done" /\ UNCHANGED <<stream, paths, routeObjs, missed>>
     ELSE LET m == Head(stream) IN
          /\ stream' = Tail(stream)
          /\ zpc' = IF zapi_parse_frr(m) \/ Reconnecting THEN "poll" ELSE "done"
          /\ \/ zapi_parse_frr(m) /\ BridgeMessage(m)
             \/ ~zapi_parse_frr(m) /\ UNCHANGED <<paths, routeObjs, missed>>
  /\ UNCHANGED <<zebra, half, zsock, session, otherObjs, legacies, said>>

-----------------------------------------------------------------------------
(***************************************************************************)
(* zapi_dispatch: the same objects from messages of the compact payload    *)
(* format.  "made" is how many next hops of a route decode before the      *)
(* payload ends.                                                           *)
(***************************************************************************)
zapi_map_route(m) ==
  IF m.cmd = "route_del" THEN DeleteRoute(m.p) /\ UNCHANGED paths
  ELSE IF m.made < Len(m.gws) THEN CreatePaths(m.gws, m.made) /\ UNCHANGED routeObjs
  ELSE CreateRoute(m.p, m.gws)

\* Interfaces are created and deleted whole.
zapi_map_interface(m) ==
  LET k == <<"iface", m.id>> IN
  otherObjs' = IF m.cmd = "if_del" THEN Without(otherObjs, k)
               ELSE IF k \in DOMAIN otherObjs THEN otherObjs
               ELSE Extend(otherObjs, One(k, [mtu |-> m.val % 65536, up |-> TRUE]))

\* Read, change one field, write back.
zapi_map_interface_set_mtu(m) ==
  LET k == <<"iface", m.id>> IN
  otherObjs' = IF k \notin DOMAIN otherObjs THEN otherObjs
               ELSE [otherObjs EXCEPT ![k].mtu = m.val % 65536]
zapi_map_interface_set_admin(m) ==
  LET k == <<"iface", m.id>> IN
  otherObjs' = IF k \notin DOMAIN otherObjs THEN otherObjs
               ELSE [otherObjs EXCEPT ![k].up = (m.cmd = "if_up")]

\* Every BFD session has id 1, whoever the peer is.
zapi_map_bfd(m) ==
  LET k == <<"bfd", 1>> IN
  otherObjs' = IF m.cmd = "bfd_dereg" THEN Without(otherObjs, k)
               ELSE IF k \in DOMAIN otherObjs THEN otherObjs
               ELSE Extend(otherObjs, One(k, m.val))

\* An LSP is keyed by its incoming label; its group is not looked up.
zapi_map_labels(m) ==
  LET k == <<"lsp", m.id>> IN
  otherObjs' = IF m.cmd = "lsp_del" THEN Without(otherObjs, k)
               ELSE IF k \in DOMAIN otherObjs THEN otherObjs
               ELSE Extend(otherObjs, One(k, m.val))

\* A lookup reads next hop 1, which no message creates.
zapi_map_nexthop_lookup(m) == m.cmd = "lookup" /\ UNCHANGED store
zapi_map_redistribute_add(m) == m.cmd = "redistribute" /\ UNCHANGED store

zapi_dispatch(m) ==
  \/ m.cmd \in {"route_add", "route_del"} /\ zapi_map_route(m) /\ UNCHANGED otherObjs
  \/ m.cmd \in {"if_add", "if_del"} /\ zapi_map_interface(m) /\ UNCHANGED <<paths, routeObjs>>
  \/ m.cmd = "if_mtu" /\ zapi_map_interface_set_mtu(m) /\ UNCHANGED <<paths, routeObjs>>
  \/ m.cmd \in {"if_up", "if_down"} /\ zapi_map_interface_set_admin(m)
     /\ UNCHANGED <<paths, routeObjs>>
  \/ m.cmd \in {"bfd_reg", "bfd_dereg"} /\ zapi_map_bfd(m) /\ UNCHANGED <<paths, routeObjs>>
  \/ m.cmd \in {"lsp_add", "lsp_del"} /\ zapi_map_labels(m) /\ UNCHANGED <<paths, routeObjs>>
  \/ zapi_map_nexthop_lookup(m) \/ zapi_map_redistribute_add(m)
  \/ m.cmd = "unknown" /\ UNCHANGED store

LegacyMessage ==
  /\ zpc = "legacy" /\ legacies < MaxLegacy /\ legacies' = legacies + 1
  /\ \E m \in Legacy :
       /\ zapi_dispatch(m)
       /\ said' = IF m.cmd = "route_add" THEN [said EXCEPT ![m.p] = @ \cup {m.gws}] ELSE said
  /\ UNCHANGED <<zebra, channel, session, zpc, missed>>

ZBridge == ZConnect \/ ZRegister \/ ZPoll \/ ZRead

ZapiNext ==
  \/ LegacyMessage
  \/ /\ zpc # "legacy"
     /\ \/ ZBridge \/ ZTick \/ ZebraNoise \/ ZebraDies \/ ZebraRises
        \/ \E p \in ZPrefixes : RibChange(p) \/ RibReplay(p)

ZapiSpec == ZapiInit /\ [][ZapiNext]_zapiVars

\* The loop runs, time passes, zebra comes back and sends what it owes; connecting
\* again and again to a running zebra succeeds in the end.
ZapiFairness ==
  /\ WF_zapiVars(ZBridge) /\ WF_zapiVars(ZTick) /\ WF_zapiVars(ZebraRises)
  /\ SF_zapiVars(ZConnect /\ zstate' = "up")
  /\ \A p \in ZPrefixes : WF_zapiVars(RibReplay(p))

-----------------------------------------------------------------------------
(* Properties. *)

\* What the store says of a route's paths.
StoredPaths(p) ==
  IF routeObjs[p] = 0 THEN << >>
  ELSE [i \in DOMAIN grpObjs[routeObjs[p]] |-> nhObjs[grpObjs[routeObjs[p]][i]]]

\* A route's group and next hops are there, and its gateways are those of one
\* announcement of that very prefix: not of another prefix, nor a mixture, in spite
\* of refused announcements that leave next hops and groups behind and of truncated
\* messages that stop half-way.
PathsWhole ==
  \A p \in DOMAIN routeObjs :
    /\ routeObjs[p] # 0 => /\ routeObjs[p] \in DOMAIN grpObjs
                           /\ \A i \in DOMAIN grpObjs[routeObjs[p]] :
                                grpObjs[routeObjs[p]][i] \in DOMAIN nhObjs
    /\ StoredPaths(p) \in said[p]

\* When the session is up and everything sent has been read, the store has a route
\* for exactly the prefixes of zebra's RIB, but for those whose withdrawal never
\* reached the client: a hang-up discards the frames before it, and zebra replays
\* routes, not withdrawals.
QuietInSync ==
  registered /\ toReplay = {} /\ stream = << >> =>
    \A p \in ZPrefixes :
      /\ rib[p] # NoRoute => p \in DOMAIN routeObjs
      /\ p \in DOMAIN routeObjs => rib[p] # NoRoute \/ p \in missed

\* The store follows zebra: whole paths, and in a quiet moment the prefixes of the RIB.
FollowsZebra == PathsWhole /\ QuietInSync

\* Every route of zebra's RIB is learnt, through any number of lost connections,
\* unless the program ends, which it does when zebra closes within a frame or
\* during registration.
RoutesLearnt ==
  \A p \in ZPrefixes :
    (rib[p] # NoRoute) ~> (p \in DOMAIN routeObjs \/ rib[p] = NoRoute \/ zpc = "done")
=============================================================================
