----------------------------- MODULE MCServices -----------------------------
(***************************************************************************)
(* The gNMI server's connection and its header compression, the            *)
(* notifications and the small services, for TLC.  They share no state in  *)
(* these modules, so each behaviour exercises one of them, "focus", and    *)
(* the others stand still.                                                 *)
(***************************************************************************)
EXTENDS Http2, Notify, Retry, Tables, StateDiff, Daemon, Hpack, TLC

CONSTANTS iface, route

VARIABLE focus

\* Up to three streams over two window slots.  The reply to a ONCE subscription is longer
\* than its stream's window, and the next stream's HEADERS may arrive while it waits; the
\* reply behind it waits for the connection's window.  Every kind of RPC comes in every
\* shape, a subscription before and after a unary RPC.
Plain(kind) == <<kind, "plain">>

MCPlans ==
  { <<Plain("once"), Plain("unary")>>,
    <<Plain("error"), Plain("stream")>>,
    <<Plain("stream"), <<"caps", "bare">> >>,
    <<<<"poll", "cont">>, Plain("unary")>>,
    <<<<"caps", "bare">>, <<"unknown", "bare">>, <<"caps", "bare">> >>,
    <<<<"unary", "bare">>, <<"once", "bare">> >> }

\* Everything, updates and deletions of routes, and changes of interfaces only.
MCWishes == {<<65535, AnyType>>, <<12, route>>, <<65535, iface>>}

\* Two contents of one size, and a larger one.
MCContents == {[size |-> 1, data |-> 1], [size |-> 1, data |-> 2], [size |-> 2, data |-> 1]}

\* Around the end of each prefix, of a digit and of two.
MCNumbers == {0, 14, 15, 30, 31, 62, 63, 126, 127, 142, 143, 190, 191, 254, 255, 256, 16398, 16399,
              16510, 16511, 2097278, 2097279}

\* Two symbols of five bits, one of six, and two of ten, of which EOS is all ones.
MCHufLens == (0 :> 10) @@ (1 :> 5) @@ (2 :> 5) @@ (3 :> 6) @@ (4 :> 10)
MCHufCodes == (0 :> 1022) @@ (1 :> 0) @@ (2 :> 1) @@ (3 :> 4) @@ (4 :> 1023)

\* In the initial states of the others nothing that fairness speaks of is enabled.
MCInit ==
  /\ Init /\ NotifyInit /\ RetryInit /\ TablesInit /\ DiffInit /\ DaemonInit
  /\ HpackInit
  /\ focus \in {"gnmi", "notify", "antiflap", "supervisor", "bfd", "vrrp", "backends", "audit",
                "diff", "daemon", "table", "int", "huffman"}
  /\ focus # "gnmi" => pc = "closed" /\ plan = <<Plain("once"), Plain("unary")>>
  /\ IF focus = "daemon" THEN mainAt = "netlink" ELSE mainAt = "exited" /\ toRecover = 0
  /\ focus # "diff" => desired = [o \in DiffObjs |-> Absent]

\* One part moves, the others do not.
Only(part) ==
  /\ part = "gnmi" \/ UNCHANGED vars
  /\ part = "notify" \/ UNCHANGED notifyVars
  /\ part \in {"antiflap", "supervisor"} \/ UNCHANGED retryVars
  /\ part \in {"bfd", "vrrp", "backends", "audit"} \/ UNCHANGED tableVars
  /\ part = "diff" \/ UNCHANGED diffVars
  /\ part = "daemon" \/ UNCHANGED daemonVars
  /\ part \in {"table", "int", "huffman"} \/ UNCHANGED hpackVars

MCNext ==
  /\ UNCHANGED focus
  /\ \/ focus = "gnmi" /\ Next
     \/ focus = "notify" /\ NotifyNext
     \/ focus = "antiflap" /\ FlapNext
     \/ focus = "supervisor" /\ SupNext
     \/ focus = "bfd" /\ BfdNext
     \/ focus = "vrrp" /\ VrrpNext
     \/ focus = "backends" /\ BackendNext
     \/ focus = "audit" /\ AuditNext
     \/ focus = "diff" /\ DiffNext
     \/ focus = "daemon" /\ DaemonNext
     \/ focus = "table" /\ HpackNext
     \/ focus = "int" /\ SendInt
     \/ focus = "huffman" /\ HufNext
  /\ Only(focus)

allVars == <<vars, notifyVars, retryVars, tableVars, diffVars, daemonVars, hpackVars, focus>>

MCSpec == MCInit /\ [][MCNext]_allVars /\ Fairness /\ DaemonFairness
=============================================================================
