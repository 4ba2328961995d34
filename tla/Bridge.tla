------------------------------- MODULE Bridge -------------------------------
(***************************************************************************)
(* The FRR to VPP bridge, danos-test/fib_live_bridge.c: one thread that    *)
(* turns each zebra route message into a change of the desired store, runs *)
(* the programming pipeline (module Programming) and sweeps, and that      *)
(* reconnects and replays when VPP restarts and loses its FIB.             *)
(*                                                                         *)
(* The VPP API connection (danos-vpp/src/api/vpp_api.c) is "up", "down"    *)
(* (VPP_API_DISCONNECTED), or "stale": VPP has gone, the client still      *)
(* takes itself for connected.  A request on a stale connection fails when *)
(* it is sent, which leaves the client's state alone; only a request whose *)
(* reply does not come makes it "down".                                    *)
(***************************************************************************)
EXTENDS Programming

CONSTANTS MaxTries,       \* recoveries tried for one message
          MaxReplays,     \* replays tried in one recovery
          Probes,         \* is DANOS_VPP_HEALTH_PROBE set?
          MaxVppRestart   \* bound: restarts of VPP

ASSUME BridgeAssumption ==
  /\ MaxTries \in Nat \ {0} /\ MaxReplays \in Nat \ {0} /\ MaxVppRestart \in Nat
  /\ Probes \in BOOLEAN

VARIABLES phase,        \* where the main loop is
          tries,        \* recoveries left
          replays,      \* replays left
          vppRestarts   \* what MaxVppRestart counts

loop == <<phase, tries, replays, vppRestarts>>
bridgeVars == <<vars, loop>>

BridgeInit ==
  /\ Init
  /\ phase = "recv" /\ tries = 0 /\ replays = 0 /\ vppRestarts = 0

Go(where) == phase' = where /\ UNCHANGED <<tries, replays, vppRestarts>>

-----------------------------------------------------------------------------
(* One zebra message. *)

\* Add or delete a route and commit.  An add of a route that exists, or a delete
\* of one that does not, is refused by the store; then the loop goes on without
\* programming anything.
Receive(r) ==
  /\ phase = "recv"
  /\ \/ route[r] = None /\ \E c \in RouteObjs : route' = [route EXCEPT ![r] = c]
     \/ route[r] # None /\ route' = [route EXCEPT ![r] = None]
  /\ Go("message")
  /\ UNCHANGED <<nh, grp, iface, dataplane, pipeline, muts, fails, restarts>>

\* danos_programming_run and danos_programming_sweep.
Program ==
  \/ phase = "message" /\ Start /\ Go("program")
  \/ phase = "program" /\ (Walk \/ Finish \/ Sweep) /\ UNCHANGED loop

Programmed ==
  /\ phase = "program" /\ pc = "idle"
  /\ IF failed
     THEN phase' = "recover" /\ tries' = MaxTries /\ UNCHANGED <<replays, vppRestarts>>
     ELSE Go("recv")
  /\ UNCHANGED vars

\* An idle session disconnects and recovers, once.
Probe ==
  /\ Probes
  /\ phase = "recv"
  /\ link' = "down"
  /\ phase' = "recover" /\ tries' = 1
  /\ UNCHANGED <<desired, fib, ifUp, ifAddr, pipeline, muts, fails, restarts,
                 replays, vppRestarts>>

-----------------------------------------------------------------------------
(* recover_vpp_backend *)

\* It returns without success: try again, or go on to the next message.
Unrecovered ==
  /\ phase' = "recover" /\ tries' = tries - 1
  /\ UNCHANGED <<replays, vppRestarts>>

GiveUp ==
  /\ phase = "recover" /\ tries = 0
  /\ Go("recv")
  /\ UNCHANGED vars

\* danos_vpp_api_is_connected: nothing to do, return 0.
AlreadyConnected ==
  /\ phase = "recover" /\ tries > 0 /\ link # "down"
  /\ Unrecovered
  /\ UNCHANGED vars

ReconnectFails ==
  /\ phase = "recover" /\ tries > 0 /\ link = "down"
  /\ fails < MaxFail /\ fails' = fails + 1
  /\ Unrecovered
  /\ UNCHANGED <<desired, dataplane, pipeline, muts, restarts>>

\* The connection is back; tombstones are swept first.
Reconnect ==
  /\ phase = "recover" /\ tries > 0 /\ link = "down"
  /\ link' = "up"
  /\ pc' = "collect" /\ failed' = FALSE
  /\ Go("resweep")
  /\ UNCHANGED <<desired, fib, ifUp, ifAddr, ledger, todo, at, muts, fails, restarts>>

Resweep == phase = "resweep" /\ Sweep /\ UNCHANGED loop

\* A tombstone that could not be withdrawn ends the recovery.
Reswept ==
  /\ phase = "resweep" /\ pc = "idle"
  /\ IF failed THEN Unrecovered
     ELSE phase' = "forget" /\ replays' = MaxReplays /\ UNCHANGED <<tries, vppRestarts>>
  /\ UNCHANGED vars

\* Mutant: the ledger is kept, so that the replay finds everything in sync.
ForgetNothing ==
  /\ phase = "forget"
  /\ phase' = "forgotten" /\ replays' = replays - 1
  /\ UNCHANGED <<vars, tries, vppRestarts>>

\* danos_programming_forget_programmed: at most SWEEP_MAX entries.
Forget ==
  LET entries == {x \in Entries : ledger[x] # None} IN
  /\ phase = "forget"
  /\ \E victims \in SUBSET entries :
       /\ Bounded(victims, entries)
       /\ ledger' = [x \in Entries |-> IF x \in victims THEN None ELSE ledger[x]]
  /\ phase' = "forgotten" /\ replays' = replays - 1
  /\ UNCHANGED <<desired, dataplane, pc, todo, at, failed, muts, fails, restarts, tries,
                 vppRestarts>>

Replay ==
  \/ phase = "forgotten" /\ Start /\ Go("replay")
  \/ phase = "replay" /\ Walk /\ UNCHANGED loop

\* The pass is over: recovered, replay once more, or fail.
Replayed ==
  /\ phase = "replay" /\ pc = "run" /\ todo = {}
  /\ pc' = "idle"
  /\ \/ ~failed /\ Go("recv")
     \/ failed /\ replays > 0 /\ Go("forget")
     \/ failed /\ replays = 0 /\ Unrecovered
  /\ UNCHANGED <<desired, dataplane, ledger, todo, at, failed, muts, fails, restarts>>

-----------------------------------------------------------------------------
\* VPP restarts with an empty FIB.  A request in flight gets no reply, which the
\* client notices; without one it notices nothing.
VppRestart ==
  /\ vppRestarts < MaxVppRestart
  /\ vppRestarts' = vppRestarts + 1
  /\ fib' = [p \in Prefixes |-> None]
  /\ ifUp' = [i \in Ifaces |-> FALSE]
  /\ ifAddr' = [i \in Ifaces |-> {}]
  /\ link' \in IF link = "down" THEN {"down"}
               ELSE IF pc = "idle" \/ todo = {} THEN {"stale"} ELSE {"stale", "down"}
  /\ UNCHANGED <<desired, pipeline, muts, fails, restarts, phase, tries, replays>>

BridgeStep ==
  \/ Program \/ Programmed
  \/ GiveUp \/ AlreadyConnected \/ ReconnectFails \/ Reconnect
  \/ Resweep \/ Reswept \/ Forget \/ Replay \/ Replayed

BridgeNext == BridgeStep \/ Probe \/ VppRestart \/ \E r \in Routes : Receive(r)

BridgeSpec == BridgeInit /\ [][BridgeNext]_bridgeVars

\* The bridge's thread runs, and the session pauses from time to time, so that
\* the idle probe runs if it is configured.  The bounds say that VPP stays up and
\* that failures stop.
FairBridgeSpec == BridgeSpec /\ WF_bridgeVars(BridgeStep) /\ SF_bridgeVars(Probe)

\* Besides, zebra keeps sending routes.
BusyBridgeSpec == FairBridgeSpec /\ SF_bridgeVars(\E r \in Routes : Receive(r))

-----------------------------------------------------------------------------
\* The replay is over without a failure: recover_vpp_backend is about to return 1.
Recovered == phase = "replay" /\ pc = "run" /\ todo = {} /\ ~failed /\ link = "up"

\* When recover_vpp_backend reports success on a live connection, VPP holds every
\* desired route again, as it resolves now.
RecoveredExact == Recovered => \A r \in Routes : route[r] # None => RouteExact(r)

\* However VPP restarts meet messages, passes, sweeps and recoveries, a desired
\* route with a usable path is eventually in VPP's FIB, or no longer desired.
Recovers ==
  \A r \in Routes :
    route[r] # None /\ Usable(route[r])
      ~> \/ route[r] = None \/ ~Usable(route[r])
         \/ fib[Prefix[r]] = Resolved(route[r])
=============================================================================
