------------------------------ MODULE MCBridge ------------------------------
(***************************************************************************)
(* Instances of Bridge for TLC: two routes of their own prefixes; next     *)
(* hops, which Programming's instances vary, are left out here, so a route *)
(* is usable (blackhole) or not.                                           *)
(***************************************************************************)
EXTENDS Bridge, TLC

CONSTANTS r1, r2, p1, p2

PrefixOwn == (r1 :> p1) @@ (r2 :> p2)
NoMembers == {}
=============================================================================
