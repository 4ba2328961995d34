--------------------------- MODULE MCNorthbound ---------------------------
(***************************************************************************)
(* Instances of Northbound.  Clients write two prefixes, one of which is   *)
(* 0.0.0.0 with the length REST uses, with one and with two gateways, in   *)
(* single requests and in a Set of two items; the interface requests use   *)
(* one name that gNMI, NETCONF and the CLI all write.                      *)
(***************************************************************************)
EXTENDS Northbound, TLC

CONSTANTS s1, s2, p1, g1, g2

RouteItem(op, prefix, gws) == [op |-> op, vrf |-> 0, prefix |-> prefix, gws |-> gws]
Leaf(chg) == [op |-> "leaf", name |-> "eth0", chg |-> chg]
Iface(name, idx, mtu) == [op |-> "iface", name |-> name, idx |-> idx, mtu |-> mtu]

MCRequests ==
  [gnmi |->
     { <<RouteItem("set", p1, <<g1>>)>>,
       <<RouteItem("ecmp", p1, <<g1, g2>>)>>,
       <<RouteItem("set", ZeroPrefix, <<g2>>), RouteItem("del", p1, << >>)>>,
       <<RouteItem("del", p1, << >>)>>,
       <<RouteItem("del", ZeroPrefix, << >>)>>,
       <<Iface("eth0", 0, 1500), Leaf("mtu" :> 9000)>>,
       <<Leaf("addr" :> "a1")>>,
       <<[op |-> "ifdel", name |-> "eth0"]>> },
   rest |->
     { <<[op |-> "restroute", grp |-> IdBase + 1]>>,
       <<Iface("eth0", 1, 1500)>>,
       <<[op |-> "put", kind |-> "acl", id |-> 1, val |-> "v1"]>>,
       <<[op |-> "put", kind |-> "acl", id |-> 1, val |-> "v2"]>>,
       <<[op |-> "drop", kind |-> "acl", id |-> 1]>> },
   netconf |-> { <<Leaf("mtu" :> 9000 @@ "up" :> FALSE)>> },
   cli |-> { <<Leaf("mtu" :> 67)>> }]

MCSymmetry == Permutations(Sessions)
=============================================================================
