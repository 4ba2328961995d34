---------------------------- MODULE MCSouthbound ----------------------------
(* The three connections of the southbound side, for TLC.  They share no state  *)
(* in these modules, so each behaviour exercises one of them, "focus", and the  *)
(* other two stand still.                                                       *)
EXTENDS VppApi, VppStat, Zapi

CONSTANTS p1, p2, g1, g2

VARIABLE focus

MCCalls ==
  {iface_up, iface_addr(TRUE, TRUE), iface_addr(FALSE, FALSE), vrf_set,
   route_add(TRUE, MaxPaths), route_add(TRUE, MaxPaths + 1), route_add(FALSE, 1),
   route_del(TRUE), route_del(FALSE), policer(TRUE), policer(FALSE)}

\* A blackhole and a multipath route.
MCPathLists == {<< >>, <<g1, g2>>}

RouteMsg(cmd, gws, made) == [cmd |-> cmd, p |-> p1, gws |-> gws, made |-> made]
ObjMsg(cmd, id, val) == [cmd |-> cmd, id |-> id, val |-> val]

\* A route whose payload ends after its first next hop, whole ones, and one message
\* of every other kind; two BFD peers; an MTU beyond 16 bits.
MCLegacy ==
  {RouteMsg("route_add", <<g2, g1>>, 1), RouteMsg("route_add", <<g2>>, 1),
   RouteMsg("route_add", << >>, 0), RouteMsg("route_del", << >>, 0),
   ObjMsg("if_add", 1, 1500), ObjMsg("if_del", 1, 0), ObjMsg("if_mtu", 1, 65537),
   ObjMsg("if_up", 1, 0), ObjMsg("if_down", 1, 0),
   ObjMsg("bfd_reg", 0, 1), ObjMsg("bfd_reg", 0, 2), ObjMsg("bfd_dereg", 0, 2),
   ObjMsg("lsp_add", 16, 1), ObjMsg("lsp_del", 16, 1),
   ObjMsg("lookup", 0, 0), ObjMsg("redistribute", 0, 0), ObjMsg("unknown", 0, 0)}

\* In the initial state of the other two nothing that fairness speaks of is enabled.
MCInit ==
  /\ VppInit /\ StatInit /\ ZapiInit
  /\ focus \in {"vpp", "stat", "zebra"}
  /\ focus # "zebra" => zpc = "legacy"
  /\ focus # "stat" => place = [q \in Places |-> NoName]

MCNext ==
  /\ UNCHANGED focus
  /\ \/ focus = "vpp" /\ VppNext /\ UNCHANGED <<statVars, zapiVars>>
     \/ focus = "stat" /\ StatNext /\ UNCHANGED <<vppVars, zapiVars>>
     \/ focus = "zebra" /\ ZapiNext /\ UNCHANGED <<vppVars, statVars>>

MCSpec ==
  /\ MCInit /\ [][MCNext]_<<vppVars, statVars, zapiVars, focus>>
  /\ VppFairness /\ StatFairness /\ ZapiFairness

\* No call to VPP waits for ever, neither a backend operation nor the query of a counter,
\* and a client whose connection has died connects again (vpp_api.c, vpp_stat.c).
VppLive == OperationEnds /\ DeadConnectionReplaced /\ QueryEnds
=============================================================================
