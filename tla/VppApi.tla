------------------------------- MODULE VppApi -------------------------------
(***************************************************************************)
(* The client of VPP's binary API:                                         *)
(*   danos-vpp/src/vpp_adapter.c  what a backend operation asks of VPP     *)
(*   danos-vpp/src/api/vpp_msgs.c one named request and its status         *)
(*   danos-vpp/src/api/vpp_api.c  the session, contexts, reconnecting      *)
(*   danos-vpp/src/api/vpp_wire.c frames and the table of message ids      *)
(*                                                                         *)
(* The client is one thread that sends a request and reads until a message *)
(* carries the request's context.  VPP (external) answers in order, may    *)
(* send messages nobody asked for, may be slower than the five seconds the *)
(* client waits, and may die and come back.  Time is counted in ticks, up  *)
(* to the longest delay.                                                   *)
(***************************************************************************)
EXTENDS Integers, Sequences, FiniteSets

CONSTANTS VppCalls,    \* the backend operations issued
          MaxPaths,    \* paths of a route, 64 in vpp_adapter_route_add
          InitDelay,   \* VPP_RECONNECT_INITIAL_MS, in ticks
          MaxDelay,    \* VPP_RECONNECT_MAX_MS, in ticks
          RecvMax,     \* messages read for one reply, 64 in the code
          QueueMax,    \* unread messages of VPP (a bound of the model)
          MaxRequests, \* requests sent (a bound of the model)
          MaxVppDeaths \* crashes of VPP (a bound of the model)

VARIABLES vppUp,     \* VPP runs
          vppDeaths, \* what MaxVppDeaths counts
          sock,      \* msg_fd: "none", "open", or "dead" once VPP has gone
          cut,       \* a frame was sent in part: VPP cannot follow the stream
          toVpp,     \* contexts of the requests VPP has not read
          fromVpp,   \* messages the client has not read
          vstate,    \* g_ctx.state
          ids,       \* names in g_ctx.msg_table
          context,   \* g_ctx.context
          delay,     \* g_ctx.reconnect_delay_ms
          elapsed,   \* ticks since g_ctx.last_connect_ns, up to MaxDelay
          vpc,       \* where the caller is
          todo,      \* names of the requests the operation has yet to make
          reads,     \* messages read for the current reply
          result,    \* status of the last operation
          first,     \* history: the context before the operation
          applied    \* history: contexts VPP has carried out

peer == <<vppUp, vppDeaths>>
conn == <<sock, cut, toVpp, fromVpp>>
timer == <<delay, elapsed>>
caller == <<vpc, todo, reads, result, first>>
vppVars == <<peer, conn, vstate, ids, context, timer, caller, applied>>

VppInit ==
  /\ vppUp = TRUE /\ vppDeaths = 0
  /\ sock = "none" /\ cut = FALSE /\ toVpp = << >> /\ fromVpp = << >>
  /\ vstate = "down" /\ ids = {} /\ context = 0
  /\ delay = InitDelay /\ elapsed = MaxDelay
  /\ vpc = "start" /\ todo = << >> /\ reads = 0 /\ result = "none" /\ first = 0
  /\ applied = {}

-----------------------------------------------------------------------------
(***************************************************************************)
(* Backend operations: the requests they make, or the status that refuses  *)
(* them before anything is sent.                                           *)
(***************************************************************************)
Names == {"sw_interface_set_flags", "sw_interface_add_del_address", "ip_route_add_del",
          "ip_table_add_del", "policer_add_del"}

Ask(reqs) == [refused |-> "no", reqs |-> reqs]
Refuse(status) == [refused |-> status, reqs |-> << >>]

iface_up == Ask(<<"sw_interface_set_flags">>)

\* The IPv4 address, then the IPv6 one, as far as the interface has them.
Address(has) == IF has THEN <<"sw_interface_add_del_address">> ELSE << >>
iface_addr(has4, has6) == Ask(Address(has4) \o Address(has6))

route_add(ipv4, paths) ==
  IF ~ipv4 THEN Refuse("not_supported")
  ELSE IF paths > MaxPaths THEN Refuse("invalid") ELSE Ask(<<"ip_route_add_del">>)
route_del(ipv4) == IF ipv4 THEN Ask(<<"ip_route_add_del">>) ELSE Refuse("not_supported")
vrf_set == Ask(<<"ip_table_add_del">>)

\* vpp_msg_policer_add_del: a policer without a name cannot be encoded.
policer(named) == IF named THEN Ask(<<"policer_add_del">>) ELSE Refuse("invalid")

-----------------------------------------------------------------------------
(***************************************************************************)
(* The session.                                                            *)
(***************************************************************************)
Return(status) == vpc' = "idle" /\ result' = status /\ todo' = << >> /\ UNCHANGED <<reads, first>>

\* danos_vpp_api_disconnect.
Hangup == sock' = "none" /\ vstate' = "down" /\ toVpp' = << >> /\ fromVpp' = << >> /\ cut' = FALSE

\* danos_vpp_api_connect with its handshake.  The reply's table is taken as far as
\* it can be read; the table of an earlier session is replaced only on success.
Connected ==
  /\ vppUp
  /\ sock' = "open" /\ vstate' = "up" /\ toVpp' = << >> /\ fromVpp' = << >> /\ cut' = FALSE
  /\ ids' \in {Names, Names \ {"policer_add_del"}}
  /\ delay' = InitDelay /\ elapsed' = 0
Refused == Hangup /\ UNCHANGED ids

\* danos_vpp_adapter_install: mock mode, or a real connection, without which the
\* program ends.
Install ==
  /\ vpc = "start" /\ vpc' = "idle"
  /\ \/ Connected
     \/ vstate' = "mock" /\ UNCHANGED <<conn, ids, timer>>
  /\ UNCHANGED <<peer, context, todo, reads, result, first, applied>>

\* danos_vpp_api_disconnect as the health probe calls it.
VppDisconnect ==
  /\ vpc = "idle" /\ vstate = "up"
  /\ Hangup
  /\ UNCHANGED <<peer, ids, context, timer, caller, applied>>

\* danos_vpp_api_reconnect, called while not connected: too early it does nothing;
\* a failed attempt doubles the delay up to the cap.
VppReconnect ==
  /\ vpc = "idle" /\ vstate = "down" /\ elapsed >= delay
  /\ \/ Connected
     \/ /\ Refused
        /\ delay' = (IF 2 * delay > MaxDelay THEN MaxDelay ELSE 2 * delay) /\ elapsed' = 0
  /\ UNCHANGED <<peer, context, caller, applied>>

VppTick ==
  /\ elapsed < MaxDelay /\ elapsed' = elapsed + 1
  /\ UNCHANGED <<peer, conn, vstate, ids, context, delay, caller, applied>>

-----------------------------------------------------------------------------
(***************************************************************************)
(* A backend operation: its requests one after the other, up to the first  *)
(* that fails.                                                             *)
(***************************************************************************)
Operate ==
  /\ vpc = "idle" /\ context < MaxRequests
  /\ \E c \in VppCalls :
       IF c.refused # "no"
       THEN Return(c.refused)
       ELSE vpc' = "next" /\ todo' = c.reqs /\ result' = "none" /\ first' = context
            /\ UNCHANGED reads
  /\ UNCHANGED <<peer, conn, vstate, ids, context, timer, applied>>

OperationDone ==
  /\ vpc = "next" /\ todo = << >>
  /\ Return("ok")
  /\ UNCHANGED <<peer, conn, vstate, ids, context, timer, applied>>

\* In mock mode every request succeeds at once.
MockRequest ==
  /\ vpc = "next" /\ todo # << >> /\ vstate = "mock"
  /\ context' = context + 1 /\ todo' = Tail(todo)
  /\ UNCHANGED <<peer, conn, vstate, ids, timer, vpc, reads, result, first, applied>>

\* transact_named and danos_vpp_api_send: the name must be in the table, which is
\* still there after a disconnect, and the session up.
CannotSend ==
  /\ vpc = "next" /\ todo # << >> /\ vstate # "mock"
  /\ \/ Head(todo) \notin ids /\ Return("not_supported")
     \/ Head(todo) \in ids /\ vstate # "up" /\ Return("io")
  /\ UNCHANGED <<peer, conn, vstate, ids, context, timer, applied>>

Sending == vpc = "next" /\ todo # << >> /\ vstate = "up" /\ Head(todo) \in ids

\* The whole frame is written, to VPP or to a socket nobody reads any more.
Send ==
  /\ Sending
  /\ context' = context + 1
  /\ toVpp' = IF sock = "open" THEN Append(toVpp, context + 1) ELSE toVpp
  /\ vpc' = "recv" /\ reads' = 0
  /\ UNCHANGED <<peer, sock, cut, fromVpp, vstate, ids, timer, todo, result, first, applied>>

\* The write fails, after part of the frame or before any of it.  The session stays
\* CONNECTED, and the context is used up.
SendFails ==
  /\ Sending
  /\ context' = context + 1
  /\ cut' \in {cut, sock = "open"}
  /\ Return("io")
  /\ UNCHANGED <<peer, sock, toVpp, fromVpp, vstate, ids, timer, applied>>

\* The reply is the message that carries the context of the last request.
\* Mutant: the next message is taken for the reply.
AnyMessage(m) == TRUE

IsReply(m) == m.word = context

\* Mutant: the messages read are not counted.
Uncounted == reads

ReadOn == reads + 1

\* One round of danos_vpp_api_transact.  A message too short to be a reply ends the
\* call and leaves the reply unread; RecvMax messages without it end the call.
Receive ==
  /\ vpc = "recv" /\ fromVpp # << >>
  /\ LET m == Head(fromVpp) IN
     \/ m.kind = "short" /\ Return("io")
     \/ /\ m.kind # "short" /\ IsReply(m)
        /\ IF m.retval = "ok"
           THEN vpc' = "next" /\ todo' = Tail(todo) /\ UNCHANGED <<reads, result, first>>
           ELSE Return(m.retval)
     \/ /\ m.kind # "short" /\ ~IsReply(m)
        /\ IF ReadOn = RecvMax THEN Return("io")
           ELSE reads' = ReadOn /\ UNCHANGED <<vpc, todo, result, first>>
  /\ fromVpp' = Tail(fromVpp)
  /\ UNCHANGED <<peer, sock, cut, toVpp, vstate, ids, context, timer, applied>>

\* Nothing for five seconds, or end of file: the session is given up, and so are
\* replies that come later.
ReceiveFails ==
  /\ vpc = "recv" /\ fromVpp = << >>
  /\ Hangup /\ Return("io")
  /\ UNCHANGED <<peer, ids, context, timer, applied>>

-----------------------------------------------------------------------------
(***************************************************************************)
(* VPP.                                                                    *)
(***************************************************************************)
Message(kind, word, retval) == [kind |-> kind, word |-> word, retval |-> retval]
Listening == vppUp /\ sock = "open" /\ Len(fromVpp) < QueueMax

\* It carries a request out, or refuses it.
VppServe ==
  /\ Listening /\ ~cut /\ toVpp # << >>
  /\ toVpp' = Tail(toVpp)
  /\ \E r \in {"ok", "not_found", "io"} :
       /\ fromVpp' = Append(fromVpp, Message("reply", Head(toVpp), r))
       /\ applied' = IF r = "ok" THEN applied \cup {Head(toVpp)} ELSE applied
  /\ UNCHANGED <<peer, sock, cut, vstate, ids, context, timer, caller>>

\* A message of its own: an event, whose first word is no context in use, or one
\* that is too short to carry a context.
VppEvent ==
  /\ Listening /\ vpc = "recv"
  /\ \E k \in {"event", "short"} : fromVpp' = Append(fromVpp, Message(k, 0, "ok"))
  /\ UNCHANGED <<peer, sock, cut, toVpp, vstate, ids, context, timer, caller, applied>>

\* VPP dies; what it has sent can still be read.
VppDies ==
  /\ vppUp /\ vppDeaths < MaxVppDeaths
  /\ vppUp' = FALSE /\ vppDeaths' = vppDeaths + 1
  /\ sock' = (IF sock = "open" THEN "dead" ELSE sock) /\ toVpp' = << >>
  /\ UNCHANGED <<cut, fromVpp, vstate, ids, context, timer, caller, applied>>

VppRises ==
  /\ ~vppUp /\ vppUp' = TRUE
  /\ UNCHANGED <<vppDeaths, conn, vstate, ids, context, timer, caller, applied>>

VppClient ==
  \/ OperationDone \/ MockRequest \/ CannotSend \/ Send \/ SendFails
  \/ Receive \/ ReceiveFails

VppNext ==
  \/ VppClient \/ Install \/ VppDisconnect \/ VppReconnect \/ VppTick \/ Operate
  \/ VppServe \/ VppEvent \/ VppDies \/ VppRises

VppSpec == VppInit /\ [][VppNext]_vppVars

\* The client's thread runs, the bridge retries while disconnected and time passes;
\* an attempt made again and again while VPP runs succeeds in the end.
VppFairness ==
  /\ WF_vppVars(VppClient) /\ WF_vppVars(VppTick) /\ WF_vppVars(VppRises)
  /\ WF_vppVars(VppReconnect) /\ SF_vppVars(VppReconnect /\ vstate' = "up")

-----------------------------------------------------------------------------
(***************************************************************************)
(* Properties.                                                             *)
(***************************************************************************)

\* Success is reported only when VPP has carried out every request of the
\* operation, whatever events, short messages, replies to earlier requests,
\* timeouts and restarts came in between.
AnswerTrue ==
  vstate # "mock" /\ vpc = "next" => (first + 1)..context \subseteq applied

\* Every operation ends, even when VPP floods the client or never answers.
OperationEnds == (vpc \in {"next", "recv"}) ~> (vpc = "idle")

\* A request that waits on a dead connection leads to a new one: only the missing
\* reply tells the client that VPP has gone.  (A request whose write fails does not,
\* nor does one that ends with a message left over from before.)
DeadConnectionReplaced ==
  (vpc = "recv" /\ sock = "dead" /\ fromVpp = << >>) ~> (sock = "open")
=============================================================================
