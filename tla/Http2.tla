------------------------------- MODULE Http2 -------------------------------
(***************************************************************************)
(* One gNMI connection: danos-mgmt/src/gnmi/gnmi_grpc.c.                   *)
(*                                                                         *)
(* The connection's thread (danos_gnmi_grpc_serve_fd) reads frames, serves *)
(* one RPC after the other and, when the peer's flow-control windows are   *)
(* used up, reads frames in the middle of a reply, parking the ones that   *)
(* belong to other streams.  The client (external) opens streams, returns  *)
(* window for what it has received and may close the connection.           *)
(*                                                                         *)
(* Lengths are in units: a reply is ReplyLen units of payload, a request   *)
(* is Parts DATA frames.  The five-byte gRPC prefix of a message is sent   *)
(* without consulting the windows, as in the code; the windows here count  *)
(* payload.                                                                *)
(***************************************************************************)
EXTENDS Integers, Sequences, FiniteSets

CONSTANTS MaxStream,   \* streams are 1..MaxStream, opened in order
          Slots,       \* entries of stream_window, 64 in h2_conn_t
          InitWin,     \* the client's SETTINGS_INITIAL_WINDOW_SIZE
          ConnWin,     \* the connection window, H2_DEFAULT_WINDOW
          MaxFrame,    \* H2_MAX_FRAME_LEN
          ReplyLen,    \* payload of a reply or notification
          Parts,       \* DATA frames of a request
          MaxVer,      \* changes of the store (a bound of the model)
          Pipelining,  \* TRUE: the client opens a stream before the last is answered
          Interleave,  \* TRUE: frames of two requests may alternate
          Plans,       \* the RPCs a client makes: sequences of <<kind, shape>>
          None

ASSUME SlotsAssumption == Slots \in Nat \ {0}
ASSUME WindowsAssumption == InitWin \in Nat /\ ConnWin \in Nat /\ MaxFrame \in Nat \ {0}
ASSUME LengthsAssumption ==
  MaxStream \in Nat /\ ReplyLen \in Nat /\ Parts \in Nat /\ MaxVer \in Nat /\ None \notin Nat
ASSUME PlansAssumption ==
  \A p \in Plans :
    /\ Len(p) <= MaxStream
    /\ p \in Seq({"unary", "caps", "error", "unknown", "once", "poll", "stream"}
                 \X {"plain", "cont", "bare"})

Streams == 1..MaxStream
Slot(s) == s % Slots

\* What an RPC comes to: a reply to Get or Set ("unary") or Capabilities ("caps"),
\* a status without a message ("error" when the handler fails, "unknown" for an
\* unknown method), or a subscription.
Subscriptions == {"once", "poll", "stream"}

VARIABLES wire,      \* frames the client has sent and the server has not read
          gone,      \* the client has closed the connection
          pending,   \* c->pending; the head is the next one popped
          connWin,   \* c->conn_window
          streamWin, \* c->stream_window
          pc,        \* where the connection's thread is
          cur,       \* the RPC being served: [s, kind, end, got]
          left,      \* payload units of the current message still to send
          after,     \* what the thread does after that message
          phase,     \* what the client has seen of each stream
          paid,      \* payload units sent on each stream; on 0, in total
          returned,  \* window the client has returned on each stream, and on 0
          plan,      \* the RPCs this client makes
          opened,    \* how many of them it has begun
          unsent,    \* request frames the client has yet to write
          ver,       \* the store, as far as the change detector tells it apart
          hash,      \* hash and last_hash of subscribe_stream_loop
          lastHash,
          note,      \* the store content of the notification being sent
          told       \* the store content of the last one delivered

client == <<returned, plan, opened, unsent, gone>>
windows == <<connWin, streamWin>>
loop == <<hash, lastHash, note, told>>
vars == <<wire, client, pending, windows, pc, cur, left, after, phase, paid, ver, loop>>

Nobody == [s |-> 0, kind |-> None, end |-> FALSE, got |-> 0]

\* A frame: type, stream, what its flags and header block say, and an amount.
Frame(t, s) == [t |-> t, s |-> s, kind |-> None, end |-> FALSE, whole |-> TRUE, n |-> 0]
WindowFrame(t, s, n) == [Frame(t, s) EXCEPT !.n = n]
House == {"SETTINGS", "PING", "WINDOW"}

\* The first frame after the preface is the client's SETTINGS.  A wrong preface ends the
\* connection at once.
Init ==
  /\ wire = <<WindowFrame("SETTINGS", 0, InitWin)>>
  /\ gone = FALSE
  /\ pending = << >>
  /\ connWin = ConnWin
  /\ streamWin = [i \in 0..(Slots - 1) |-> ConnWin]
  /\ pc \in {"main", "closed"} /\ cur = Nobody /\ left = 0 /\ after = "main"
  /\ phase = [s \in Streams |-> "none"]
  /\ paid = [s \in 0..MaxStream |-> 0]
  /\ returned = [s \in 0..MaxStream |-> 0]
  /\ plan \in Plans /\ opened = 0
  /\ unsent = [s \in Streams |-> << >>]
  /\ ver = 0 /\ hash = 0 /\ lastHash = None /\ note = None /\ told = None

-----------------------------------------------------------------------------
(***************************************************************************)
(* The client.                                                             *)
(***************************************************************************)
Ended(s) == phase[s] \in {"ended", "bad"}

\* The answer the client waits for: the end of the stream, or, for a POLL
\* subscription, whose stream stays open, the first message.
Kind(s) == IF s \in DOMAIN plan THEN plan[s][1] ELSE None
Served(s) == Ended(s) \/ (Kind(s) = "poll" /\ paid[s] >= ReplyLen)

\* HEADERS, in one frame ("plain") or continued ("cont"), then the request in Parts
\* DATA frames; or HEADERS that end the stream ("bare").
Headers(s, end, whole) ==
  [Frame("HEADERS", s) EXCEPT !.kind = Kind(s), !.end = end, !.whole = whole]
Data(s) == [i \in 1..Parts |-> [Frame("DATA", s) EXCEPT !.end = (i = Parts)]]
RequestFrames(s, shape) ==
  IF shape = "bare" THEN <<Headers(s, TRUE, TRUE)>>
  ELSE IF shape = "cont" THEN <<Headers(s, FALSE, FALSE), Frame("CONT", s)>> \o Data(s)
  ELSE <<Headers(s, FALSE, TRUE)>> \o Data(s)

ClientOpen ==
  LET s == opened + 1 IN
  /\ ~gone /\ opened < Len(plan)
  /\ Pipelining \/ \A t \in 1..opened : Served(t)
  /\ opened' = s
  /\ unsent' = [unsent EXCEPT ![s] = RequestFrames(s, plan[s][2])]
  /\ UNCHANGED <<wire, returned, plan, gone, pending, windows, pc, cur, left, after, phase, paid, ver, loop>>

ClientSend(s) ==
  /\ ~gone /\ unsent[s] # << >>
  /\ Interleave \/ \A t \in 1..(s - 1) : unsent[t] = << >>
  /\ wire' = Append(wire, Head(unsent[s]))
  /\ unsent' = [unsent EXCEPT ![s] = Tail(@)]
  /\ UNCHANGED <<returned, plan, opened, gone, pending, windows, pc, cur, left, after, phase, paid, ver, loop>>

\* WINDOW_UPDATE for what was received: on the connection always, on a stream
\* while it is open.
ClientGrant(s) ==
  /\ ~gone /\ paid[s] > returned[s]
  /\ s # 0 => ~Ended(s)
  /\ wire' = Append(wire, WindowFrame("WINDOW", s, paid[s] - returned[s]))
  /\ returned' = [returned EXCEPT ![s] = paid[s]]
  /\ UNCHANGED <<plan, opened, unsent, gone, pending, windows, pc, cur, left, after, phase, paid, ver, loop>>

\* The client gives up: on one stream (RST_STREAM), in good order (GOAWAY), or by
\* closing the socket.
ClientAbort ==
  /\ ~gone /\ gone' = TRUE
  /\ wire' \in {wire, Append(wire, Frame("GOAWAY", 0))}
               \cup {Append(wire, Frame("RST", s)) : s \in 1..opened}
  /\ UNCHANGED <<returned, plan, opened, unsent, pending, windows, pc, cur, left, after, phase, paid, ver, loop>>

StoreChange ==
  /\ ver < MaxVer /\ ver' = ver + 1
  /\ UNCHANGED <<wire, client, pending, windows, pc, cur, left, after, phase, paid, loop>>

-----------------------------------------------------------------------------
(***************************************************************************)
(* Reading frames.                                                         *)
(***************************************************************************)
Least(S) == CHOOSE m \in S : \A x \in S : m <= x

\* send_data_windowed: the smaller of the two windows, at most one frame.
\* Mutant: the connection's window is not looked at.
StreamBudget == Least({streamWin[Slot(cur.s)], MaxFrame})

Budget == Least({streamWin[Slot(cur.s)], connWin, MaxFrame})

Reading == pc \in {"main", "cont", "msg"} \/ (pc = "send" /\ left > 0 /\ Budget <= 0)

\* recv_frame, connection-level frames.  They are handled only when the frame
\* comes from the wire, and the wire is read only when nothing is parked.
\* Mutant: an update of the connection's window is not applied.
LostUpdate(f) ==
  IF f.t = "SETTINGS" THEN streamWin' = [i \in 0..(Slots - 1) |-> f.n] /\ UNCHANGED connWin
  ELSE IF f.t = "WINDOW" /\ f.s # 0 THEN streamWin' = [streamWin EXCEPT ![Slot(f.s)] = @ + f.n]
                                         /\ UNCHANGED connWin
  ELSE UNCHANGED windows

Housekeeping(f) ==
  IF f.t = "SETTINGS" THEN streamWin' = [i \in 0..(Slots - 1) |-> f.n] /\ UNCHANGED connWin
  ELSE IF f.t = "WINDOW" /\ f.s = 0 THEN connWin' = connWin + f.n /\ UNCHANGED streamWin
  ELSE IF f.t = "WINDOW" THEN streamWin' = [streamWin EXCEPT ![Slot(f.s)] = @ + f.n]
                              /\ UNCHANGED connWin
  ELSE UNCHANGED windows

ReadHouse ==
  /\ Reading /\ pending = << >> /\ wire # << >> /\ Head(wire).t \in House
  /\ Housekeeping(Head(wire))
  /\ wire' = Tail(wire)
  /\ UNCHANGED <<client, pending, pc, cur, left, after, phase, paid, ver, loop>>

\* End of file: the thread leaves its loop.
ReadEof ==
  /\ Reading /\ pending = << >> /\ wire = << >> /\ gone
  /\ pc' = "closed"
  /\ UNCHANGED <<wire, client, pending, windows, cur, left, after, phase, paid, ver, loop>>

\* recv_frame, any other frame: the top of the parked ones first, then the wire.
Frames == IF pending # << >> THEN {Head(pending)}
          ELSE IF wire # << >> /\ Head(wire).t \notin House THEN {Head(wire)} ELSE {}
Parked == IF pending # << >> THEN Tail(pending) ELSE pending
Consume(park) ==
  /\ pending' = park
  /\ wire' = IF pending # << >> THEN wire ELSE Tail(wire)

\* The main loop serves HEADERS and drops everything else.
ReadMain ==
  /\ pc = "main"
  /\ \E f \in Frames :
       /\ Consume(Parked)
       /\ IF f.t = "HEADERS"
          THEN /\ cur' = [s |-> f.s, kind |-> f.kind, end |-> f.end, got |-> 0]
               /\ pc' = IF ~f.whole THEN "cont" ELSE IF f.end THEN "dispatch" ELSE "msg"
          ELSE pc' = (IF f.t = "GOAWAY" THEN "closed" ELSE pc) /\ UNCHANGED cur
  /\ UNCHANGED <<client, windows, left, after, phase, paid, ver, loop>>

\* The fold of CONTINUATION frames; other frames are parked, and popped again.
ReadCont ==
  /\ pc = "cont"
  /\ \E f \in Frames :
       /\ Consume(IF f.t = "CONT" THEN Parked ELSE <<f>> \o Parked)
       /\ pc' = IF f.t # "CONT" THEN pc ELSE IF cur.end THEN "dispatch" ELSE "msg"
  /\ UNCHANGED <<client, windows, cur, left, after, phase, paid, ver, loop>>

\* read_grpc_message: HEADERS of any stream are consumed, GOAWAY and RST of any
\* stream end the connection, frames that are not this stream's DATA are parked.
ReadMsg ==
  /\ pc = "msg"
  /\ \E f \in Frames :
       LET own == f.t = "DATA" /\ f.s = cur.s IN
       /\ Consume(IF f.t \in {"HEADERS", "GOAWAY", "RST"} \/ own THEN Parked ELSE <<f>> \o Parked)
       /\ IF own THEN cur' = [cur EXCEPT !.got = @ + 1] ELSE UNCHANGED cur
       /\ pc' = IF f.t \in {"GOAWAY", "RST"} THEN "closed"
                ELSE IF f.t = "HEADERS" /\ f.end /\ cur.got = 0 THEN "main"
                ELSE IF (f.t = "HEADERS" /\ f.end) \/ (own /\ cur.got + 1 = Parts) THEN "dispatch"
                ELSE pc
  /\ UNCHANGED <<client, windows, left, after, phase, paid, ver, loop>>

\* Blocked on the windows: HEADERS and DATA of other streams are parked (and
\* popped again before the wire is read), everything else is dropped.
ReadBlocked ==
  /\ pc = "send" /\ Reading
  /\ \E f \in Frames :
       Consume(IF f.t \in {"DATA", "HEADERS"} /\ f.s # cur.s THEN <<f>> \o Parked ELSE Parked)
  /\ UNCHANGED <<client, windows, pc, cur, left, after, phase, paid, ver, loop>>

-----------------------------------------------------------------------------
(***************************************************************************)
(* Serving an RPC.                                                         *)
(***************************************************************************)

\* The client's view of a stream after one more frame: headers, data, end.
Seen(p, tag) ==
  IF tag = "H" THEN IF p = "none" THEN "open" ELSE "bad"
  ELSE IF tag = "D" THEN IF p = "open" THEN "open" ELSE "bad"
  ELSE IF p \in {"none", "open"} THEN "ended" ELSE "bad"
Write(tag) == phase' = [phase EXCEPT ![cur.s] = Seen(@, tag)]

\* A message of n units and what follows it.  Response headers come first.
Reply(n, then) ==
  /\ Write("H")
  /\ pc' = "send" /\ left' = n /\ after' = then

\* Dispatch on :path.  Without a whole request message every handler but that of
\* Capabilities fails.
At(where, kinds) == pc = where /\ cur.kind \in kinds
Whole == ~cur.end /\ cur.got = Parts
Serving == UNCHANGED <<wire, client, pending, windows, cur, paid, ver, hash, note, told>>

gnmi_handle_capabilities ==
  /\ At("dispatch", {"caps"})
  /\ Reply(ReplyLen, "trailers")
  /\ UNCHANGED lastHash /\ Serving

\* Get and Set: one message and the trailers.
gnmi_handle_get ==
  /\ At("dispatch", {"unary"}) /\ Whole
  /\ Reply(ReplyLen, "trailers")
  /\ UNCHANGED lastHash /\ Serving

\* The handler failed, or there is none: a status and nothing else.
StatusOnly ==
  /\ \/ At("dispatch", {"unary"}) /\ ~Whole
     \/ At("dispatch", {"error", "unknown"})
  /\ Write("E") /\ pc' = "main"
  /\ UNCHANGED <<left, after, lastHash>> /\ Serving

\* ONCE sends its content, a sync_response and trailers; POLL its content, and the
\* stream stays open; STREAM enters its loop; a failure ends the connection.
gnmi_handle_subscribe ==
  /\ At("dispatch", Subscriptions)
  /\ \/ ~Whole /\ pc' = "closed" /\ UNCHANGED <<phase, left, after, lastHash>>
     \/ Whole /\ cur.kind = "once" /\ Reply(ReplyLen, "sync") /\ UNCHANGED lastHash
     \/ Whole /\ cur.kind = "poll" /\ Reply(ReplyLen, "main") /\ UNCHANGED lastHash
     \/ /\ Whole /\ cur.kind = "stream"
        /\ pc' = "peek" /\ lastHash' = None
        /\ UNCHANGED <<phase, left, after>>
  /\ Serving

\* One DATA frame of send_data_windowed; both windows shrink.
Charge(n) ==
  /\ streamWin' = [streamWin EXCEPT ![Slot(cur.s)] = @ - n]
  /\ connWin' = connWin - n

ChunkLen == Least({Budget, left})

SendChunk ==
  LET n == ChunkLen IN
  /\ pc = "send" /\ left > 0 /\ Budget > 0
  /\ Write("D")
  /\ paid' = [paid EXCEPT ![cur.s] = @ + n, ![0] = @ + n]
  /\ Charge(n)
  /\ left' = left - n
  /\ UNCHANGED <<wire, client, pending, pc, cur, after, ver, loop>>

\* The message is out: trailers, the sync_response message (one unit) of a ONCE
\* subscription, the main loop, or the next round of a STREAM subscription.
\* Mutant: ONCE sends its trailers before the sync_response message.
EarlyTrailers ==
  /\ pc = "send" /\ left = 0
  /\ IF after = "sync" THEN left' = 1 /\ after' = "trailers" /\ pc' = pc
     ELSE left' = 0 /\ after' = after /\ pc' = IF after = "tick" THEN "peek" ELSE "main"
  /\ IF after \in {"sync", "trailers"} THEN Write("E") ELSE UNCHANGED phase
  /\ told' = IF after = "tick" THEN note ELSE told
  /\ UNCHANGED <<wire, client, pending, windows, cur, paid, ver, hash, lastHash, note>>

SendDone ==
  /\ pc = "send" /\ left = 0
  /\ IF after = "sync" THEN left' = 1 /\ after' = "trailers" /\ pc' = pc
     ELSE left' = 0 /\ after' = after /\ pc' = IF after = "tick" THEN "peek" ELSE "main"
  /\ IF after = "trailers" THEN Write("E") ELSE UNCHANGED phase
  /\ told' = IF after = "tick" THEN note ELSE told
  /\ UNCHANGED <<wire, client, pending, windows, cur, paid, ver, hash, lastHash, note>>

\* A write fails once the client is gone.  The result of send_grpc_response is
\* ignored, that of a subscription ends the connection.
SendFail ==
  /\ pc = "send" /\ gone
  /\ pc' = IF cur.kind \in Subscriptions THEN "closed" ELSE "main"
  /\ UNCHANGED <<wire, client, pending, windows, cur, left, after, phase, paid, ver, loop>>

\* The change detector: the number of interfaces, VRFs and routes, and the MTUs.
ContentHash == ver

\* build_notification_for_paths: the objects of the store when it is built.
Content == ver

\* subscribe_stream_loop: only a closed and drained socket ends it (MSG_PEEK
\* returning 0).  The hash is taken before the wait, the content after it.
StreamPeek ==
  /\ pc = "peek"
  /\ IF gone /\ wire = << >>
     THEN pc' = "main" /\ UNCHANGED hash
     ELSE pc' = "wait" /\ hash' = ContentHash
  /\ UNCHANGED <<wire, client, pending, windows, cur, left, after, phase, paid, ver, lastHash, note, told>>

\* The wait ends with an event or after 200 ms.
\* Mutant: the remembered hash is the one of the store after the wait.
RehashAfterWait ==
  /\ pc = "wait"
  /\ IF hash # lastHash
     THEN /\ IF lastHash = None THEN Write("H") ELSE UNCHANGED phase
          /\ pc' = "send" /\ left' = ReplyLen /\ after' = "tick"
          /\ note' = hash /\ lastHash' = ContentHash
     ELSE pc' = "peek" /\ UNCHANGED <<phase, left, after, note, lastHash>>
  /\ UNCHANGED <<wire, client, pending, windows, cur, paid, ver, hash, told>>

StreamWake ==
  /\ pc = "wait"
  /\ IF hash # lastHash
     THEN /\ IF lastHash = None THEN Write("H") ELSE UNCHANGED phase
          /\ pc' = "send" /\ left' = ReplyLen /\ after' = "tick"
          /\ note' = Content /\ lastHash' = hash
     ELSE pc' = "peek" /\ UNCHANGED <<phase, left, after, note, lastHash>>
  /\ UNCHANGED <<wire, client, pending, windows, cur, paid, ver, hash, told>>

ClientNext ==
  \/ ClientOpen \/ \E s \in Streams : ClientSend(s)
  \/ \E s \in 0..MaxStream : ClientGrant(s)
  \/ ClientAbort

ServerNext ==
  \/ ReadHouse \/ ReadEof \/ ReadMain \/ ReadCont \/ ReadMsg \/ ReadBlocked
  \/ gnmi_handle_capabilities \/ gnmi_handle_get \/ StatusOnly \/ gnmi_handle_subscribe
  \/ SendChunk \/ SendDone \/ SendFail \/ StreamPeek \/ StreamWake

Next == ClientNext \/ ServerNext \/ StoreChange

Spec == Init /\ [][Next]_vars

\* The thread runs; the client finishes the requests it began and returns window
\* for what it received.  It need not open streams, and the store need not change.
Fairness ==
  /\ WF_vars(ServerNext)
  /\ \A s \in Streams : WF_vars(ClientSend(s))
  /\ \A s \in 0..MaxStream : WF_vars(ClientGrant(s))

FairSpec == Spec /\ Fairness

-----------------------------------------------------------------------------
(***************************************************************************)
(* Properties.                                                             *)
(***************************************************************************)

\* Payload stays within what the client has granted, on every stream and on the
\* connection, however updates, other streams' frames and slots shared by two
\* streams (stream % 64) interleave with the chunks of a reply.
FlowControl ==
  /\ paid[0] <= ConnWin + returned[0]
  /\ \A s \in Streams : paid[s] <= InitWin + returned[s]

\* On every stream the client sees headers, then data, then one end of stream,
\* and nothing after it.
StreamOrder == \A s \in Streams : phase[s] # "bad"

\* Every stream the client opened is served, unless the client left or the server
\* ended the connection; a STREAM subscription occupies it; a frame was parked
\* (it is popped and parked again for ever and the wire is not read any more); or
\* an earlier stream used the same window slot and left it short.
Answered ==
  \A s \in Streams :
    s <= opened ~>
      \/ Served(s) \/ gone \/ pc = "closed"
      \/ pending # << >>
      \/ pc \in {"peek", "wait", "send"} /\ cur.kind = "stream"
      \/ \E t \in 1..(s - 1) : Slot(t) = Slot(s)

\* A STREAM subscriber eventually holds the store's current content, for changes
\* that the detector's hash can see: taking the hash before the wait and the
\* content after it never loses a change.
SubscriberCatchesUp ==
  [](cur.kind = "stream" /\ pc \in {"peek", "wait", "send"} =>
       <>(told = ver \/ gone \/ pc = "closed" \/ pending # << >>
          \/ \E t \in 1..(cur.s - 1) : Slot(t) = Slot(cur.s)))
=============================================================================
