-------------------------- MODULE SouthboundProofs --------------------------
(***************************************************************************)
(* Proofs about the three connections of the southbound side (modules      *)
(* VppStat, VppApi and Zapi), for any sets of counters, operations and     *)
(* routes and any bounds.                                                  *)
(***************************************************************************)
EXTENDS VppApi, VppStat, Zapi, SequenceTheorems, TLAPS

-----------------------------------------------------------------------------
(* A query of the statistics segment. *)

\* An attempt that would still be accepted, since no directory change has begun or
\* ended after its epoch was read, has the wanted name's own counter.
AttemptOK ==
  /\ epoch \in Nat /\ epoch0 \in Nat
  /\ spc \in {"find", "value", "check"} => epoch0 <= epoch
  /\ spc = "value" /\ Settled => found \in PlacesOf(want)
  /\ spc = "check" /\ Settled /\ found # NoName => value \in held

\* While the directory is settled, the wanted name's counter is among what the name
\* has stood for.
LEMMA WitnessHolds ==
  ASSUME spc # "idle", Witness, ~inProgress', NEW p \in Places, place'[p] = want
  PROVE  count'[p] \in held'
BY Zenon DEF Witness, Standings

\* Every step of the stats reader and of the directory keeps the reader's invariant.
LEMMA StatInductive ==
  ASSUME AttemptOK, QueryConsistent, [StatNext]_statVars
  PROVE  AttemptOK' /\ QueryConsistent'
<1> USE DEF AttemptOK, QueryConsistent, Settled, PlacesOf
<1>1. CASE UNCHANGED statVars
  BY <1>1, Zenon DEF statVars, segment, reader
<1>2. CASE Count \/ SegmentLock \/ SegmentDies
  BY <1>2, Zenon DEF Count, SegmentLock, SegmentDies, Witness, reader
<1>3. CASE SegmentWrite
  BY <1>3, Zenon DEF SegmentWrite, Witness, reader
<1>4. CASE SegmentUnlock
  BY <1>4 DEF SegmentUnlock, Witness, reader
<1>5. CASE StatConnect \/ StatDisconnect \/ Query
  BY <1>5, Zenon DEF StatConnect, StatDisconnect, Query, segment
<1>6. CASE ReadEpoch
  BY <1>6 DEF ReadEpoch, Spin, Witness, segment
<1>7. CASE FindEntry
  BY <1>7, Zenon DEF FindEntry, Witness, segment
<1>8. CASE ReadValue
  <2>1. Settled => value' \in held'
    BY <1>8, WitnessHolds, Zenon DEF ReadValue, segment
  <2> QED
    BY <1>8, <2>1, Zenon DEF ReadValue, segment
<1>9. CASE CheckEpoch
  BY <1>9, Zenon DEF CheckEpoch, Spin, segment
<1> QED
  BY <1>1, <1>2, <1>3, <1>4, <1>5, <1>6, <1>7, <1>8, <1>9, Zenon DEF StatNext, StatReader

\* A value other than 0 that danos_vpp_stat_query_real returns was the name's own
\* counter at some moment of the query.
THEOREM QueryIsConsistent == StatSpec => []QueryConsistent
<1>1. StatInit => AttemptOK /\ QueryConsistent
  BY DEF StatInit, AttemptOK, QueryConsistent
<1>2. AttemptOK /\ QueryConsistent /\ [StatNext]_statVars => AttemptOK' /\ QueryConsistent'
  BY StatInductive, Zenon
<1> QED
  BY <1>1, <1>2, PTL DEF StatSpec

-----------------------------------------------------------------------------
(* Requests to VPP. *)

ReplyMsgs == [kind : {"reply", "event", "short"}, word : Nat,
              retval : {"ok", "not_found", "io"}]

ConnTypes ==
  /\ context \in Nat /\ first \in Nat /\ first <= context
  /\ toVpp \in Seq(Nat) /\ fromVpp \in Seq(ReplyMsgs)

\* A reply that says "ok" is about a request VPP has carried out; no other message
\* carries a context that was ever used.
RepliesTrue ==
  \A i \in 1..Len(fromVpp) :
    /\ fromVpp[i].kind = "reply" /\ fromVpp[i].retval = "ok" => fromVpp[i].word \in applied
    /\ fromVpp[i].kind # "reply" => fromVpp[i].word = 0

\* While a reply is awaited every earlier request of the operation is carried out.
Awaiting ==
  vpc = "recv" => /\ vstate # "mock" /\ context > first
                  /\ (first + 1)..(context - 1) \subseteq applied

VppInv == ConnTypes /\ RepliesTrue /\ Awaiting /\ AnswerTrue

\* The VPP client begins without a connection and without replies.
LEMMA VppInitInv == VppInit => VppInv
BY DEF VppInit, VppInv, ConnTypes, RepliesTrue, Awaiting, AnswerTrue

\* Every step keeps the types of the connection.
LEMMA VppNextTypes ==
  ASSUME ConnTypes, [VppNext]_vppVars
  PROVE  ConnTypes'
<1> USE DEF ConnTypes
<1>0. << >> \in Seq(Nat) /\ << >> \in Seq(ReplyMsgs)
  OBVIOUS
<1>1. CASE UNCHANGED vppVars
  BY <1>1, Zenon DEF vppVars, conn, caller
<1>2. CASE Install \/ VppDisconnect \/ VppReconnect \/ VppTick
  BY <1>0, <1>2, Zenon DEF Install, VppDisconnect, VppReconnect, VppTick, Connected, Refused,
                    Hangup, conn, caller
<1>3. CASE Operate \/ OperationDone \/ MockRequest \/ CannotSend
  BY <1>3 DEF Operate, OperationDone, MockRequest, CannotSend, Return, conn
<1>4. CASE Send \/ SendFails
  <2>1. context + 1 \in Nat /\ Append(toVpp, context + 1) \in Seq(Nat)
    BY AppendProperties
  <2>2. toVpp' \in {toVpp, Append(toVpp, context + 1)} /\ fromVpp' = fromVpp
    BY <1>4, Zenon DEF Send, SendFails
  <2>3. context' = context + 1 /\ first' = first
    BY <1>4, Zenon DEF Send, SendFails, Return
  <2> QED
    BY <2>1, <2>2, <2>3
<1>5. CASE Receive
  <2>1. fromVpp' \in Seq(ReplyMsgs)
    BY <1>5, HeadTailProperties, Zenon DEF Receive
  <2> QED
    BY <1>5, <2>1, Zenon DEF Receive, Return
<1>6. CASE ReceiveFails
  BY <1>6 DEF ReceiveFails, Return, Hangup
<1>7. CASE VppServe
  BY <1>7 DEF VppServe, Message, ReplyMsgs, caller
<1>8. CASE VppEvent
  BY <1>8 DEF VppEvent, Message, ReplyMsgs, caller
<1>9. CASE VppDies \/ VppRises
  BY <1>0, <1>9, Zenon DEF VppDies, VppRises, conn, caller
<1> QED
  BY <1>1, <1>2, <1>3, <1>4, <1>5, <1>6, <1>7, <1>8, <1>9, Zenon DEF VppNext, VppClient

\* What VPP has sent stays true: it takes nothing back that it has carried out.
LEMMA VppNextReplies ==
  ASSUME ConnTypes, RepliesTrue, [VppNext]_vppVars
  PROVE  RepliesTrue'
<1> USE DEF ConnTypes, RepliesTrue
<1>1. CASE UNCHANGED vppVars
  BY <1>1, Zenon DEF vppVars, conn
<1>2. CASE Install \/ VppDisconnect \/ VppReconnect \/ VppTick
  BY <1>2 DEF Install, VppDisconnect, VppReconnect, VppTick, Connected, Refused, Hangup, conn
<1>3. CASE Operate \/ OperationDone \/ MockRequest \/ CannotSend
  BY <1>3, Zenon DEF Operate, OperationDone, MockRequest, CannotSend, conn
<1>4. CASE Send \/ SendFails
  BY <1>4, Zenon DEF Send, SendFails
<1>5. CASE Receive
  <2>1. /\ Len(fromVpp') = Len(fromVpp) - 1
        /\ \A i \in 1..Len(fromVpp') : fromVpp'[i] = fromVpp[i + 1]
    BY <1>5, HeadTailProperties, Zenon DEF Receive
  <2>2. \A i \in 1..Len(fromVpp') : i + 1 \in 1..Len(fromVpp)
    BY <2>1
  <2> QED
    BY <1>5, <2>1, <2>2, Zenon DEF Receive
<1>6. CASE ReceiveFails
  BY <1>6, Zenon DEF ReceiveFails, Hangup
<1>7. ASSUME NEW m \in ReplyMsgs, fromVpp' = Append(fromVpp, m), applied \subseteq applied',
             m.kind = "reply" /\ m.retval = "ok" => m.word \in applied',
             m.kind # "reply" => m.word = 0
      PROVE  RepliesTrue'
  <2>1. /\ Len(fromVpp') = Len(fromVpp) + 1
        /\ \A i \in 1..Len(fromVpp) : fromVpp'[i] = fromVpp[i]
        /\ fromVpp'[Len(fromVpp) + 1] = m
    BY <1>7, AppendProperties
  <2> QED
    BY <1>7, <2>1
<1>8. CASE VppServe
  <2>1. PICK r \in {"ok", "not_found", "io"} :
          /\ fromVpp' = Append(fromVpp, Message("reply", Head(toVpp), r))
          /\ applied' = IF r = "ok" THEN applied \cup {Head(toVpp)} ELSE applied
    BY <1>8, Zenon DEF VppServe
  <2>2. Head(toVpp) \in Nat
    BY <1>8 DEF VppServe
  <2>3. Message("reply", Head(toVpp), r) \in ReplyMsgs
    BY <2>2, Zenon DEF Message, ReplyMsgs
  <2> QED
    BY <1>7, <2>1, <2>3, Zenon DEF Message
<1>9. CASE VppEvent
  <2>1. PICK k \in {"event", "short"} : fromVpp' = Append(fromVpp, Message(k, 0, "ok"))
    BY <1>9, Zenon DEF VppEvent
  <2>2. Message(k, 0, "ok") \in ReplyMsgs
    BY Zenon DEF Message, ReplyMsgs
  <2> QED
    BY <1>7, <1>9, <2>1, <2>2, Zenon DEF VppEvent, Message
<1>10. CASE VppDies \/ VppRises
  BY <1>10, Zenon DEF VppDies, VppRises, conn
<1> QED
  BY <1>1, <1>2, <1>3, <1>4, <1>5, <1>6, <1>8, <1>9, <1>10, Zenon DEF VppNext, VppClient

\* A reply is taken for the current request's only if it carries its context.
LEMMA VppNextAnswers ==
  ASSUME VppInv, [VppNext]_vppVars
  PROVE  Awaiting' /\ AnswerTrue'
<1> USE DEF VppInv, ConnTypes, Awaiting, AnswerTrue
<1>1. CASE UNCHANGED vppVars
  BY <1>1, Zenon DEF vppVars, caller
<1>2. CASE Install \/ VppDisconnect \/ VppReconnect \/ VppTick
  BY <1>2, Zenon DEF Install, VppDisconnect, VppReconnect, VppTick, Connected, Refused, Hangup,
              caller
<1>3. CASE Operate \/ OperationDone \/ CannotSend
  BY <1>3 DEF Operate, OperationDone, CannotSend, Return
<1>4. CASE MockRequest
  BY <1>4, Zenon DEF MockRequest
<1>5. CASE Send \/ SendFails
  <2>1. vstate = "up" /\ vpc = "next" /\ context' = context + 1
    BY <1>5, Zenon DEF Send, SendFails, Sending
  <2>2. (first + 1)..context \subseteq applied /\ context + 1 - 1 = context
    BY <2>1
  <2> QED
    BY <1>5, <2>1, <2>2 DEF Send, SendFails, Return
<1>6. CASE Receive
  <2>1. Head(fromVpp) = fromVpp[1] /\ 1 \in 1..Len(fromVpp)
    BY <1>6 DEF Receive
  <2>2. ASSUME IsReply(Head(fromVpp)), Head(fromVpp).retval = "ok"
        PROVE  context \in applied
    BY <1>6, <2>1, <2>2 DEF IsReply, RepliesTrue, Receive
  <2>3. CASE vpc' = "next"
    <3>1. IsReply(Head(fromVpp)) /\ Head(fromVpp).retval = "ok"
      BY <1>6, <2>3, Zenon DEF Receive, Return
    <3>2. (first + 1)..context \subseteq applied
      BY <1>6, <2>2, <3>1 DEF Receive
    <3> QED
      BY <1>6, <2>3, <3>2, Zenon DEF Receive, Return
  <2>4. CASE vpc' # "next"
    BY <1>6, <2>4, Zenon DEF Receive, Return
  <2> QED
    BY <2>3, <2>4, Zenon
<1>7. CASE ReceiveFails
  BY <1>7, Zenon DEF ReceiveFails, Return
<1>8. CASE VppServe \/ VppEvent \/ VppDies \/ VppRises
  BY <1>8, Zenon DEF VppServe, VppEvent, VppDies, VppRises, caller
<1> QED
  BY <1>1, <1>2, <1>3, <1>4, <1>5, <1>6, <1>7, <1>8, Zenon DEF VppNext, VppClient

\* A backend operation reports success only when VPP has carried out all its requests.
THEOREM AnswersAreTrue == VppSpec => []AnswerTrue
<1>1. VppInv /\ [VppNext]_vppVars => VppInv'
  BY VppNextTypes, VppNextReplies, VppNextAnswers, Zenon DEF VppInv
<1> QED
  BY <1>1, VppInitInv, PTL DEF VppSpec, VppInv

-----------------------------------------------------------------------------
(* Objects made from route messages. *)

\* Ids come off one counter, so that what is made later never takes the place of what
\* a route refers to.
StoreOK ==
  /\ nextId \in Nat \ {0}
  /\ \A x \in DOMAIN nhObjs \cup DOMAIN grpObjs : x \in Nat /\ x < nextId
  /\ DOMAIN routeObjs \subseteq ZPrefixes
  /\ PathsWhole

\* The objects of an announcement are new; those that were there are unchanged.
LEMMA PathsCreated ==
  ASSUME StoreOK, NEW gws, IsPathList(gws), NEW made \in 0..Len(gws), CreatePaths(gws, made)
  PROVE  /\ nextId' \in Nat \ {0}
         /\ \A x \in DOMAIN nhObjs' \cup DOMAIN grpObjs' : x \in Nat /\ x < nextId'
         /\ \A x \in DOMAIN nhObjs : x \in DOMAIN nhObjs' /\ nhObjs'[x] = nhObjs[x]
         /\ \A x \in DOMAIN grpObjs : x \in DOMAIN grpObjs' /\ grpObjs'[x] = grpObjs[x]
         /\ made = Len(gws) =>
              /\ nextId \in DOMAIN grpObjs'
              /\ grpObjs'[nextId] = [i \in 1..Len(gws) |-> nextId + i]
              /\ \A i \in 1..Len(gws) : nextId + i \in DOMAIN nhObjs'
                                        /\ nhObjs'[nextId + i] = gws[i]
<1> DEFINE mem == Members(Len(gws))
           new == {mem[i] : i \in 1..made}
           hops == [x \in new |-> gws[CHOOSE i \in 1..made : mem[i] = x]]
<1>1. Len(gws) \in Nat /\ made \in Nat /\ made <= Len(gws) /\ nextId \in Nat \ {0}
  BY DEF IsPathList, StoreOK
<1>2. nhObjs' = Extend(nhObjs, hops)
  BY Zenon DEF CreatePaths
<1>3. grpObjs' = IF made = Len(gws) THEN Extend(grpObjs, One(nextId, mem)) ELSE grpObjs
  BY Zenon DEF CreatePaths
<1>4. nextId' \in {nextId + 1 + made, nextId + 2 + made}
  BY Zenon DEF CreatePaths
<1>5. mem = [i \in 1..Len(gws) |-> nextId + i]
  BY Zenon DEF Members
<1>6. DOMAIN hops = new /\ DOMAIN One(nextId, mem) = {nextId} /\ One(nextId, mem)[nextId] = mem
  BY Zenon DEF One
<1> HIDE DEF mem
<1>7. \A i \in 1..made : mem[i] = nextId + i
  BY <1>1, <1>5
<1>8. \A i \in 1..made : nextId + i \in new /\ hops[nextId + i] = gws[i]
  <2> TAKE i \in 1..made
  <2>1. \A j \in 1..made : mem[j] = nextId + i => j = i
    BY <1>1, <1>7
  <2>2. mem[i] = nextId + i
    BY <1>7, Zenon
  <2>3. (CHOOSE j \in 1..made : mem[j] = nextId + i) = i
    BY <2>1, <2>2, Zenon
  <2> QED
    BY <2>2, <2>3, Zenon
<1>9. \A x \in new : x \in Nat /\ x > nextId /\ x <= nextId + made
  BY <1>1, <1>7
<1> HIDE DEF new, hops
<1>10. /\ DOMAIN nhObjs' = DOMAIN nhObjs \cup new
       /\ \A x \in new : nhObjs'[x] = hops[x]
       /\ \A x \in DOMAIN nhObjs : x \notin new => nhObjs'[x] = nhObjs[x]
  BY <1>2, <1>6, Zenon DEF Extend
<1>11. /\ DOMAIN grpObjs' \subseteq DOMAIN grpObjs \cup {nextId}
       /\ \A x \in DOMAIN grpObjs : x \in DOMAIN grpObjs'
       /\ \A x \in DOMAIN grpObjs : x # nextId => grpObjs'[x] = grpObjs[x]
       /\ made = Len(gws) => nextId \in DOMAIN grpObjs' /\ grpObjs'[nextId] = mem
  BY <1>3, <1>6, Zenon DEF Extend
<1>12. nextId' \in Nat \ {0} /\ nextId' > nextId + made
  BY <1>1, <1>4
<1>13. \A x \in DOMAIN nhObjs \cup DOMAIN grpObjs :
         x \in Nat /\ x < nextId /\ x \notin new /\ x # nextId
  BY <1>1, <1>9 DEF StoreOK
<1>14. \A x \in DOMAIN nhObjs' \cup DOMAIN grpObjs' : x \in Nat /\ x < nextId'
  BY <1>1, <1>9, <1>10, <1>11, <1>12, <1>13
<1>15. ASSUME made = Len(gws)
       PROVE  /\ grpObjs'[nextId] = [i \in 1..Len(gws) |-> nextId + i]
              /\ \A i \in 1..Len(gws) : nextId + i \in DOMAIN nhObjs'
                                        /\ nhObjs'[nextId + i] = gws[i]
  BY <1>5, <1>8, <1>10, <1>11, <1>15, Zenon
<1> QED
  BY <1>10, <1>11, <1>12, <1>13, <1>14, <1>15

\* What a route refers to stays whole when objects are added.
LEMMA PathsKept ==
  ASSUME StoreOK, NEW q \in DOMAIN routeObjs, q \in DOMAIN routeObjs',
         routeObjs'[q] = routeObjs[q], said[q] \subseteq said'[q],
         \A x \in DOMAIN nhObjs : x \in DOMAIN nhObjs' /\ nhObjs'[x] = nhObjs[x],
         \A x \in DOMAIN grpObjs : x \in DOMAIN grpObjs' /\ grpObjs'[x] = grpObjs[x]
  PROVE  /\ routeObjs'[q] # 0 => /\ routeObjs'[q] \in DOMAIN grpObjs'
                                 /\ \A i \in DOMAIN grpObjs'[routeObjs'[q]] :
                                      grpObjs'[routeObjs'[q]][i] \in DOMAIN nhObjs'
         /\ StoredPaths(q)' \in said'[q]
<1>1. StoredPaths(q)' = StoredPaths(q)
  BY DEF StoreOK, PathsWhole, StoredPaths
<1> QED
  BY <1>1 DEF StoreOK, PathsWhole

\* An announcement, of which all gateways or only the first ones decode.
LEMMA AnnouncementKeepsStore ==
  ASSUME StoreOK, NEW p \in ZPrefixes, NEW gws, IsPathList(gws),
         \A q \in ZPrefixes : said[q] \subseteq said'[q],
         \/ CreateRoute(p, gws) /\ gws \in said'[p]
         \/ \E made \in 0..Len(gws) : CreatePaths(gws, made) /\ UNCHANGED routeObjs
  PROVE  StoreOK'
<1>1. CASE \E made \in 0..Len(gws) : CreatePaths(gws, made) /\ UNCHANGED routeObjs
  <2>1. PICK made \in 0..Len(gws) : CreatePaths(gws, made) /\ UNCHANGED routeObjs
    BY <1>1, Zenon
  <2>2. PathsWhole'
    BY <2>1, PathsCreated, PathsKept, Zenon DEF PathsWhole, StoreOK
  <2> QED
    BY <2>1, <2>2, PathsCreated, Zenon DEF StoreOK
<1>2. CASE CreateRoute(p, gws) /\ gws \in said'[p]
  <2>1. /\ \A x \in DOMAIN nhObjs : x \in DOMAIN nhObjs' /\ nhObjs'[x] = nhObjs[x]
        /\ \A x \in DOMAIN grpObjs : x \in DOMAIN grpObjs' /\ grpObjs'[x] = grpObjs[x]
        /\ nextId' \in Nat \ {0}
        /\ \A x \in DOMAIN nhObjs' \cup DOMAIN grpObjs' : x \in Nat /\ x < nextId'
    <3>1. CASE gws = << >>
      BY <1>2, <3>1, Zenon DEF CreateRoute, paths, StoreOK
    <3>2. CASE gws # << >>
      <4>1. Len(gws) \in 0..Len(gws)
        BY DEF IsPathList
      <4> QED
        BY <1>2, <3>2, <4>1, PathsCreated, Zenon DEF CreateRoute
    <3> QED
      BY <3>1, <3>2, Zenon
  <2>2. CASE p \in DOMAIN routeObjs
    <3>1. routeObjs' = routeObjs
      BY <1>2, <2>2, Zenon DEF CreateRoute
    <3>2. PathsWhole'
      BY <2>1, <3>1, PathsKept, Zenon DEF PathsWhole, StoreOK
    <3> QED
      BY <2>1, <3>1, <3>2, Zenon DEF StoreOK
  <2>3. CASE p \notin DOMAIN routeObjs
    <3> DEFINE id == IF gws = << >> THEN 0 ELSE nextId
    <3>1. routeObjs' = Extend(routeObjs, One(p, id))
      BY <1>2, <2>3, Zenon DEF CreateRoute
    <3>2. DOMAIN One(p, id) = {p} /\ One(p, id)[p] = id
      BY Zenon DEF One
    <3> HIDE DEF id
    <3>3. /\ DOMAIN routeObjs' = DOMAIN routeObjs \cup {p}
          /\ routeObjs'[p] = id
          /\ \A q \in DOMAIN routeObjs : q # p => routeObjs'[q] = routeObjs[q]
      BY <3>1, <3>2 DEF Extend
    <3>4. /\ id # 0 => /\ id \in DOMAIN grpObjs'
                       /\ \A i \in DOMAIN grpObjs'[id] : grpObjs'[id][i] \in DOMAIN nhObjs'
          /\ StoredPaths(p)' \in said'[p]
      <4>1. CASE gws = << >>
        BY <1>2, <3>3, <4>1, Zenon DEF StoredPaths, id
      <4>2. CASE gws # << >>
        <5>1. id = nextId /\ id # 0 /\ Len(gws) \in 0..Len(gws) /\ DOMAIN gws = 1..Len(gws)
          BY <4>2 DEF id, StoreOK, IsPathList
        <5>2. CreatePaths(gws, Len(gws))
          BY <1>2, <4>2, Zenon DEF CreateRoute
        <5>3. /\ id \in DOMAIN grpObjs'
              /\ grpObjs'[id] = [i \in 1..Len(gws) |-> nextId + i]
              /\ \A i \in 1..Len(gws) : nextId + i \in DOMAIN nhObjs'
                                        /\ nhObjs'[nextId + i] = gws[i]
          BY <5>1, <5>2, PathsCreated, Zenon
        <5>4. StoredPaths(p)' = [i \in 1..Len(gws) |-> gws[i]]
          BY <3>3, <5>1, <5>3 DEF StoredPaths
        <5>5. gws = [i \in 1..Len(gws) |-> gws[i]]
          BY <5>1 DEF IsPathList
        <5> QED
          BY <1>2, <5>3, <5>4, <5>5, Zenon
      <4> QED
        BY <4>1, <4>2, Zenon
    <3>5. PathsWhole'
      BY <2>1, <3>3, <3>4, PathsKept, Zenon DEF PathsWhole, StoreOK
    <3> QED
      BY <2>1, <3>3, <3>5, Zenon DEF StoreOK
  <2> QED
    BY <2>2, <2>3, Zenon
<1> QED
  BY <1>1, <1>2, Zenon

\* A withdrawal takes the route alone.
LEMMA WithdrawalKeepsStore ==
  ASSUME StoreOK, NEW p, DeleteRoute(p), UNCHANGED <<paths, said>>
  PROVE  StoreOK'
<1>1. /\ DOMAIN routeObjs' = DOMAIN routeObjs \ {p}
      /\ \A q \in DOMAIN routeObjs \ {p} : routeObjs'[q] = routeObjs[q]
  BY Zenon DEF DeleteRoute, Without
<1>2. UNCHANGED <<nhObjs, grpObjs, nextId, said>>
  BY Zenon DEF paths
<1> QED
  BY <1>1, <1>2, Zenon DEF StoreOK, PathsWhole, StoredPaths

-----------------------------------------------------------------------------
(* What is on its way between zebra's RIB and the store. *)

Announced == PathLists \cup {m.gws : m \in {x \in Legacy : x.cmd = "route_add"}}
ZMsgs == [cmd : {"add", "del"} \cup Noise, p : ZPrefixes, gws : PathLists \cup {<< >>}]

Concerns(i, p) == stream[i].p = p /\ stream[i].cmd \in {"add", "del"}
Latest(i, p) == Concerns(i, p) /\ \A j \in DOMAIN stream : j > i => ~Concerns(j, p)
Silent(p) == \A i \in DOMAIN stream : ~Concerns(i, p)

StreamTypes ==
  /\ rib \in [ZPrefixes -> PathLists \cup {NoRoute}]
  /\ stream \in Seq(ZMsgs)
  /\ said \in [ZPrefixes -> SUBSET Announced]
  /\ \A p \in toReplay : p \in ZPrefixes /\ rib[p] # NoRoute
  /\ \A p \in ZPrefixes : rib[p] # NoRoute => rib[p] \in said[p]
  /\ \A i \in DOMAIN stream :
       stream[i].cmd = "add" => stream[i].gws \in PathLists /\ stream[i].gws \in said[stream[i].p]

SessionOK ==
  /\ registered \in BOOLEAN
  /\ registered => zsock = "open" /\ zpc \in {"poll", "read", "done"}
  /\ zpc \in {"poll", "read"} /\ zsock = "open" => registered
  /\ toReplay # {} => registered
  /\ zpc \in {"connect", "register"} => stream = << >>

\* A registered client: the last message about a prefix says what the RIB says of it,
\* and with none on its way the store agrees already.
InStep ==
  registered =>
    \A p \in ZPrefixes :
      /\ \/ Silent(p)
         \/ \E i \in DOMAIN stream : Latest(i, p) /\ (stream[i].cmd = "add" <=> rib[p] # NoRoute)
      /\ Silent(p) /\ p \notin toReplay =>
           /\ rib[p] # NoRoute => p \in DOMAIN routeObjs
           /\ p \in DOMAIN routeObjs => rib[p] # NoRoute \/ p \in missed

\* A client that is not: it is told of a prefix without a route, or has missed that,
\* whether it has the route or is about to make it.
Apart ==
  ~registered /\ zpc # "legacy" =>
    \A p \in ZPrefixes :
      /\ rib[p] = NoRoute
      /\ \/ p \in DOMAIN routeObjs
         \/ zpc = "read" /\ \E i \in DOMAIN stream : stream[i].cmd = "add" /\ stream[i].p = p
      => p \in missed \cup Withdrawals(stream)

ZapiInv == StoreOK /\ StreamTypes /\ SessionOK /\ InStep /\ Apart

\* A step that leaves paths and route objects alone keeps the store.
LEMMA StoreUntouched ==
  ASSUME StoreOK, UNCHANGED <<paths, routeObjs>>, \A q \in ZPrefixes : said[q] \subseteq said'[q]
  PROVE  StoreOK'
BY Zenon DEF StoreOK, PathsWhole, StoredPaths, paths

\* History only grows.
LEMMA SaidGrows ==
  ASSUME StreamTypes, [ZapiNext]_zapiVars
  PROVE  \A q \in ZPrefixes : said[q] \subseteq said'[q]
<1> USE DEF StreamTypes
<1>1. CASE LegacyMessage
  BY <1>1 DEF LegacyMessage
<1>2. CASE ZBridge \/ ZTick \/ ZebraNoise \/ ZebraDies \/ ZebraRises
  BY <1>2, Zenon DEF ZBridge, ZConnect, ZRegister, ZPoll, ZRead, ZTick, ZebraNoise, ZebraDies,
              ZebraRises, zHist
<1>3. CASE \E p \in ZPrefixes : RibChange(p) \/ RibReplay(p)
  BY <1>3 DEF RibChange, RibReplay, zHist
<1>4. CASE UNCHANGED zapiVars
  BY <1>4, Zenon DEF zapiVars, zHist
<1> QED
  BY <1>1, <1>2, <1>3, <1>4, Zenon DEF ZapiNext

\* Every step of the FRR bridge keeps the store's references.
LEMMA StepStore ==
  ASSUME StoreOK, StreamTypes, [ZapiNext]_zapiVars
  PROVE  StoreOK'
<1>1. \A q \in ZPrefixes : said[q] \subseteq said'[q]
  BY SaidGrows, Zenon
<1>2. CASE LegacyMessage
  <2>1. PICK m \in Legacy :
          /\ zapi_dispatch(m)
          /\ said' = IF m.cmd = "route_add" THEN [said EXCEPT ![m.p] = @ \cup {m.gws}] ELSE said
    BY <1>2, Zenon DEF LegacyMessage
  <2>2. CASE m.cmd \in {"route_add", "route_del"} /\ zapi_map_route(m)
    <3>1. m.p \in ZPrefixes /\ IsPathList(m.gws) /\ m.made \in 0..Len(m.gws)
      BY <2>2, ZapiAssumption, Zenon
    <3>2. CASE m.cmd = "route_del"
      BY <2>1, <2>2, <3>2, WithdrawalKeepsStore, Zenon DEF zapi_map_route
    <3>3. CASE m.cmd = "route_add"
      <4>1. m.gws \in said'[m.p]
        BY <2>1, <3>1, <3>3, Zenon DEF StreamTypes
      <4> QED
        BY <1>1, <2>2, <3>1, <3>3, <4>1, AnnouncementKeepsStore, Zenon DEF zapi_map_route
    <3> QED
      BY <2>2, <3>2, <3>3, Zenon
  <2>3. CASE UNCHANGED <<paths, routeObjs>>
    BY <1>1, <2>3, StoreUntouched, Zenon
  <2> QED
    BY <2>1, <2>2, <2>3, Zenon DEF zapi_dispatch, zapi_map_nexthop_lookup, zapi_map_redistribute_add, store
<1>3. CASE ZRead
  <2>1. CASE UNCHANGED <<paths, routeObjs>>
    BY <1>1, <2>1, StoreUntouched, Zenon
  <2>2. CASE stream # << >> /\ zapi_dispatch_frr(Head(stream))
    <3> DEFINE m == Head(stream)
    <3>1. m = stream[1] /\ 1 \in DOMAIN stream /\ m \in ZMsgs
      BY <2>2 DEF StreamTypes
    <3>2. UNCHANGED said
      BY <1>3, Zenon DEF ZRead
    <3>3. CASE m.cmd = "add" /\ CreateRoute(m.p, m.gws)
      <4>1. m.p \in ZPrefixes /\ IsPathList(m.gws) /\ m.gws \in said'[m.p]
        BY <3>1, <3>2, <3>3, ZapiAssumption, Zenon DEF StreamTypes, ZMsgs
      <4> QED
        BY <1>1, <3>3, <4>1, AnnouncementKeepsStore, Zenon
    <3>4. CASE m.cmd = "del" /\ DeleteRoute(m.p) /\ UNCHANGED paths
      BY <3>2, <3>4, WithdrawalKeepsStore, Zenon
    <3> QED
      BY <2>1, <2>2, <3>3, <3>4, Zenon DEF zapi_dispatch_frr
  <2> QED
    BY <1>3, <2>1, <2>2, Zenon DEF ZRead, BridgeMessage
<1>4. CASE UNCHANGED <<paths, routeObjs>>
  BY <1>1, <1>4, StoreUntouched, Zenon
<1> QED
  BY <1>2, <1>3, <1>4, Zenon DEF ZapiNext, ZBridge, ZConnect, ZRegister, ZPoll, ZTick, ZebraNoise,
       ZebraDies, ZebraRises, RibChange, RibReplay, store, zapiVars

\* Every step keeps what a session's phase says of it.
LEMMA StepSession ==
  ASSUME StreamTypes, SessionOK, [ZapiNext]_zapiVars
  PROVE  SessionOK'
<1> USE DEF SessionOK
<1>1. CASE LegacyMessage
  BY <1>1, Zenon DEF LegacyMessage, zebra, channel
<1>2. CASE ZBridge
  <2>1. CASE ZConnect
    BY <2>1, Zenon DEF ZConnect, zebra, channel
  <2>2. CASE ZRegister
    BY <2>2, Zenon DEF ZRegister, channel
  <2>3. CASE ZPoll
    BY <2>3, Zenon DEF ZPoll, zebra, channel
  <2>4. CASE ZRead
    <3>1. zpc' \in {"poll", "done"} /\ zpc = "read" /\ UNCHANGED <<registered, toReplay, zsock>>
      BY <2>4, Zenon DEF ZRead, zebra
    <3> QED
      BY <3>1, Zenon
  <2> QED
    BY <1>2, <2>1, <2>2, <2>3, <2>4, Zenon DEF ZBridge
<1>3. CASE ZTick \/ ZebraNoise \/ ZebraRises
  BY <1>3 DEF ZTick, ZebraNoise, ZebraRises, zebra, channel
<1>4. CASE ZebraDies
  BY <1>4, Zenon DEF ZebraDies
<1>5. CASE \E p \in ZPrefixes : RibChange(p) \/ RibReplay(p)
  BY <1>5 DEF RibChange, RibReplay, StreamTypes
<1>6. CASE UNCHANGED zapiVars
  BY <1>6, Zenon DEF zapiVars, zebra, channel
<1> QED
  BY <1>1, <1>2, <1>3, <1>4, <1>5, <1>6, Zenon DEF ZapiNext

\* The stream without its first or its last message, and with one more.
LEMMA StreamTail ==
  ASSUME StreamTypes, stream # << >>
  PROVE  /\ Len(stream) \in Nat /\ 1 \in DOMAIN stream /\ Head(stream) = stream[1]
         /\ Head(stream) \in ZMsgs /\ DOMAIN stream = 1..Len(stream)
         /\ Tail(stream) \in Seq(ZMsgs) /\ DOMAIN Tail(stream) = 1..(Len(stream) - 1)
         /\ \A i \in DOMAIN Tail(stream) : i + 1 \in DOMAIN stream /\ Tail(stream)[i] = stream[i + 1]
BY HeadTailProperties DEF StreamTypes

\* The stream without its last message.
LEMMA StreamFront ==
  ASSUME StreamTypes, stream # << >>
  PROVE  LET front == SubSeq(stream, 1, Len(stream) - 1)
         IN  /\ Len(stream) \in Nat /\ DOMAIN stream = 1..Len(stream) /\ Len(stream) \in DOMAIN stream
             /\ front \in Seq(ZMsgs) /\ DOMAIN front = 1..(Len(stream) - 1)
             /\ \A i \in DOMAIN front : i \in DOMAIN stream /\ front[i] = stream[i]
BY SubSeqProperties DEF StreamTypes

\* The stream with one more message.
LEMMA StreamAppend ==
  ASSUME StreamTypes, NEW m \in ZMsgs
  PROVE  /\ Append(stream, m) \in Seq(ZMsgs) /\ Len(stream) \in Nat /\ DOMAIN stream = 1..Len(stream)
         /\ DOMAIN Append(stream, m) = 1..(Len(stream) + 1)
         /\ \A i \in DOMAIN stream : Append(stream, m)[i] = stream[i]
         /\ Append(stream, m)[Len(stream) + 1] = m
BY AppendProperties DEF StreamTypes

\* Every message of the stream is about a prefix.
LEMMA StreamPrefixes ==
  ASSUME StreamTypes
  PROVE  \A i \in DOMAIN stream : stream[i].p \in ZPrefixes
<1>1. \A i \in DOMAIN stream : stream[i] \in ZMsgs
  BY DEF StreamTypes
<1> QED
  BY <1>1, Zenon DEF ZMsgs

\* Every step keeps the types of the stream.
LEMMA StepStream ==
  ASSUME StreamTypes, [ZapiNext]_zapiVars
  PROVE  StreamTypes'
<1>1. \A q \in ZPrefixes : said[q] \subseteq said'[q]
  BY SaidGrows, Zenon
<1>2. CASE UNCHANGED <<rib, toReplay, said>> /\ stream' \in Seq(ZMsgs)
           /\ \A i \in DOMAIN stream' :
                \/ \E j \in DOMAIN stream : stream'[i] = stream[j]
                \/ stream'[i].cmd # "add"
  BY <1>2, Zenon DEF StreamTypes
<1>3. CASE LegacyMessage
  <2>1. PICK m \in Legacy :
          said' = IF m.cmd = "route_add" THEN [said EXCEPT ![m.p] = @ \cup {m.gws}] ELSE said
    BY <1>3, Zenon DEF LegacyMessage
  <2>2. m.cmd = "route_add" => m.p \in ZPrefixes /\ m.gws \in Announced
    BY ZapiAssumption, Zenon DEF Announced
  <2>3. said' \in [ZPrefixes -> SUBSET Announced]
    BY <2>1, <2>2, Zenon DEF StreamTypes
  <2>4. UNCHANGED <<rib, toReplay, stream>>
    BY <1>3, Zenon DEF LegacyMessage, zebra, channel
  <2>5. \A i \in DOMAIN stream : stream[i].p \in ZPrefixes
    BY StreamPrefixes, Zenon
  <2>6. \A i \in DOMAIN stream :
          stream[i].cmd = "add" => stream[i].gws \in PathLists /\ stream[i].gws \in said'[stream[i].p]
    BY <1>1, <2>5, Zenon DEF StreamTypes
  <2>7. \A q \in ZPrefixes : rib[q] # NoRoute => rib[q] \in said'[q]
    BY <1>1, Zenon DEF StreamTypes
  <2> QED
    BY <2>3, <2>4, <2>6, <2>7, Zenon DEF StreamTypes
<1>4. CASE ZConnect \/ ZPoll
  <2>1. UNCHANGED <<rib, toReplay, said>> /\ (stream' = << >> \/ stream' = stream)
    BY <1>4, Zenon DEF ZConnect, ZPoll, zebra, channel, zHist
  <2>2. CASE stream' = << >>
    <3>1. << >> \in Seq(ZMsgs) /\ DOMAIN stream' = {}
      BY <2>2
    <3> QED
      BY <1>2, <2>1, <2>2, <3>1, Zenon
  <2>3. CASE stream' = stream
    BY <2>1, <2>3, Zenon DEF StreamTypes
  <2> QED
    BY <2>1, <2>2, <2>3, Zenon
<1>5. CASE ZRegister
  BY <1>5, Zenon DEF ZRegister, StreamTypes, channel, zHist
<1>6. CASE ZRead
  <2>1. UNCHANGED <<rib, toReplay, said>>
    BY <1>6, Zenon DEF ZRead, zebra
  <2>2. CASE stream = << >>
    BY <1>2, <1>6, <2>1, <2>2, Zenon DEF ZRead, StreamTypes
  <2>3. CASE stream # << >>
    <3>1. stream' = Tail(stream)
      BY <1>6, <2>3, Zenon DEF ZRead
    <3> QED
      BY <1>2, <2>1, <2>3, <3>1, StreamTail, Zenon
  <2> QED
    BY <2>2, <2>3, Zenon
<1>7. CASE ZTick \/ ZebraRises \/ UNCHANGED zapiVars
  BY <1>7, Zenon DEF ZTick, ZebraRises, zapiVars, zebra, channel, zHist, StreamTypes
<1>8. CASE ZebraNoise
  <2>1. PICK c \in Noise : stream' = <<Msg(c, CHOOSE p \in ZPrefixes : TRUE, << >>)>>
    BY <1>8, Zenon DEF ZebraNoise
  <2>2. (CHOOSE p \in ZPrefixes : TRUE) \in ZPrefixes
    BY ZapiAssumption, Zenon
  <2>3. Msg(c, CHOOSE p \in ZPrefixes : TRUE, << >>) \in ZMsgs /\ c # "add"
    BY <2>2, Zenon DEF Msg, ZMsgs, Noise
  <2>4. Msg(c, CHOOSE p \in ZPrefixes : TRUE, << >>).cmd # "add"
    BY <2>3, Zenon DEF Msg
  <2> DEFINE m == Msg(c, CHOOSE p \in ZPrefixes : TRUE, << >>)
  <2>5. stream' \in Seq(ZMsgs) /\ \A i \in DOMAIN stream' : stream'[i].cmd # "add"
    <3>1. m \in ZMsgs /\ m.cmd # "add" /\ stream' = <<m>>
      BY <2>1, <2>3, <2>4, Zenon
    <3> HIDE DEF m
    <3> QED
      BY <3>1
  <2> QED
    BY <1>2, <1>8, <2>5, Zenon DEF ZebraNoise, zebra, zHist
<1>9. CASE ZebraDies
  <2>1. UNCHANGED <<rib, said>> /\ toReplay' = {}
    BY <1>9, Zenon DEF ZebraDies
  <2>2. CASE UNCHANGED stream
    BY <2>1, <2>2, Zenon DEF StreamTypes
  <2>3. CASE stream # << >> /\ stream' = SubSeq(stream, 1, Len(stream) - 1)
    <3>1. stream' \in Seq(ZMsgs) /\ \A i \in DOMAIN stream' : i \in DOMAIN stream /\ stream'[i] = stream[i]
      BY <2>3, StreamFront, Zenon
    <3> QED
      BY <2>1, <3>1, Zenon DEF StreamTypes
  <2> QED
    BY <1>9, <2>2, <2>3, Zenon DEF ZebraDies
<1>10. ASSUME NEW p \in ZPrefixes, RibReplay(p)
       PROVE  StreamTypes'
  <2>1. rib[p] # NoRoute /\ rib[p] \in PathLists /\ rib[p] \in said[p]
    BY <1>10, Zenon DEF RibReplay, StreamTypes
  <2> DEFINE m == Msg("add", p, rib[p])
  <2>2. m \in ZMsgs /\ m.p = p /\ m.gws = rib[p]
    BY <2>1, Zenon DEF ZMsgs, Msg
  <2>3. stream' = Append(stream, m) /\ toReplay' = toReplay \ {p} /\ UNCHANGED <<rib, said>>
    BY <1>10, Zenon DEF RibReplay, zHist
  <2> HIDE DEF m
  <2>4. \A i \in DOMAIN stream' : (i \in DOMAIN stream /\ stream'[i] = stream[i]) \/ stream'[i] = m
    BY <2>2, <2>3, StreamAppend
  <2>5. stream' \in Seq(ZMsgs)
    BY <2>2, <2>3, StreamAppend, Zenon
  <2> QED
    BY <2>1, <2>2, <2>3, <2>4, <2>5, Zenon DEF StreamTypes
<1>11. ASSUME NEW p \in ZPrefixes, RibChange(p)
       PROVE  StreamTypes'
  <2>1. PICK g \in (PathLists \cup {NoRoute}) \ {rib[p]} :
          /\ rib' = [rib EXCEPT ![p] = g]
          /\ stream' = IF ~registered THEN stream
                       ELSE Append(stream, IF g = NoRoute THEN Msg("del", p, << >>)
                                                          ELSE Msg("add", p, g))
          /\ said' = IF g = NoRoute THEN said ELSE [said EXCEPT ![p] = @ \cup {g}]
    BY <1>11, Zenon DEF RibChange
  <2> DEFINE m == IF g = NoRoute THEN Msg("del", p, << >>) ELSE Msg("add", p, g)
  <2>2. m \in ZMsgs /\ m.p = p /\ (m.cmd = "add" => m.gws = g /\ g \in PathLists)
    BY Zenon DEF ZMsgs, Msg
  <2>3. /\ said' \in [ZPrefixes -> SUBSET Announced] /\ (g # NoRoute => g \in said'[p])
        /\ rib' \in [ZPrefixes -> PathLists \cup {NoRoute}]
    <3>1. g # NoRoute => g \in Announced
      BY Zenon DEF Announced
    <3>2. CASE g = NoRoute
      BY <2>1, <3>2, Zenon DEF StreamTypes
    <3>3. CASE g # NoRoute
      BY <2>1, <3>1, <3>3, Zenon DEF StreamTypes
    <3> QED
      BY <3>2, <3>3, Zenon
  <2>4. stream' = stream \/ stream' = Append(stream, m)
    BY <2>1, Zenon
  <2>5. m.cmd = "add" => g # NoRoute
    BY Zenon DEF Msg
  <2> HIDE DEF m
  <2>6. /\ stream' \in Seq(ZMsgs)
        /\ \A i \in DOMAIN stream' : (i \in DOMAIN stream /\ stream'[i] = stream[i]) \/ stream'[i] = m
    <3>1. CASE stream' = stream
      BY <3>1, Zenon DEF StreamTypes
    <3>2. CASE stream' = Append(stream, m)
      BY <2>2, <3>2, StreamAppend
    <3> QED
      BY <2>4, <3>1, <3>2, Zenon
  <2>7. toReplay' = {}
    BY <1>11, Zenon DEF RibChange
  <2>8. \A q \in ZPrefixes : rib'[q] # NoRoute => rib'[q] \in said'[q]
    BY <1>1, <2>1, <2>3, Zenon DEF StreamTypes
  <2>9. \A i \in DOMAIN stream' :
          stream'[i].cmd = "add" => stream'[i].gws \in PathLists /\ stream'[i].gws \in said'[stream'[i].p]
    BY <1>1, <2>2, <2>3, <2>5, <2>6, StreamPrefixes, Zenon DEF StreamTypes
  <2> QED
    BY <2>3, <2>6, <2>7, <2>8, <2>9, Zenon DEF StreamTypes
<1> QED
  BY <1>3, <1>4, <1>5, <1>6, <1>7, <1>8, <1>9, <1>10, <1>11, Zenon DEF ZapiNext, ZBridge

\* What a message does to the store's prefixes, and to the withdrawals that were missed.
LEMMA ReadEffect ==
  ASSUME StreamTypes, ZRead, stream # << >>
  PROVE  LET m == Head(stream) IN
         /\ stream' = Tail(stream) /\ UNCHANGED <<rib, registered, toReplay>>
         /\ zpc = "read" /\ zpc' \in {"poll", "done"}
         /\ m.cmd = "add" => DOMAIN routeObjs' = DOMAIN routeObjs \cup {m.p} /\ missed' = missed
         /\ m.cmd = "del" => DOMAIN routeObjs' = DOMAIN routeObjs \ {m.p} /\ missed' = missed \ {m.p}
         /\ m.cmd \notin {"add", "del"} => DOMAIN routeObjs' = DOMAIN routeObjs /\ missed' = missed
<1> DEFINE m == Head(stream)
<1>1. /\ stream' = Tail(stream) /\ UNCHANGED <<rib, registered, toReplay>>
      /\ zpc = "read" /\ zpc' \in {"poll", "done"}
  BY Zenon DEF ZRead, zebra
<1>2. \/ m.cmd # "bad" /\ zapi_dispatch_frr(m)
      \/ m.cmd \in {"native", "other", "bad"} /\ UNCHANGED <<routeObjs, missed>>
  BY Zenon DEF ZRead, BridgeMessage, zapi_parse_frr
<1> HIDE DEF m
<1>3. m.cmd = "add" => DOMAIN routeObjs' = DOMAIN routeObjs \cup {m.p} /\ missed' = missed
  BY <1>2, Zenon DEF zapi_dispatch_frr, zapi_decode_frr_route, CreateRoute, Extend, One
<1>4. m.cmd = "del" => DOMAIN routeObjs' = DOMAIN routeObjs \ {m.p} /\ missed' = missed \ {m.p}
  BY <1>2, Zenon DEF zapi_dispatch_frr, zapi_decode_frr_route, DeleteRoute, Without
<1>5. m.cmd \notin {"add", "del"} => DOMAIN routeObjs' = DOMAIN routeObjs /\ missed' = missed
  BY <1>2, Zenon DEF zapi_dispatch_frr
<1> QED
  BY <1>1, <1>3, <1>4, <1>5, Zenon DEF m

\* A message is read: if it was the last about its prefix the store now agrees with the
\* RIB; about other prefixes the same messages are still to come.
LEMMA ReadInStep ==
  ASSUME StreamTypes, InStep, ZRead, stream # << >>
  PROVE  InStep'
<1> DEFINE m == Head(stream)
<1>1. /\ Len(stream) \in Nat /\ 1 \in DOMAIN stream /\ m = stream[1] /\ DOMAIN stream = 1..Len(stream)
      /\ stream' = Tail(stream) /\ DOMAIN stream' = 1..(Len(stream) - 1)
      /\ \A i \in DOMAIN stream' : i + 1 \in DOMAIN stream /\ stream'[i] = stream[i + 1]
  BY StreamTail, ReadEffect, Zenon
<1>2. /\ UNCHANGED <<rib, registered, toReplay>>
      /\ m.cmd = "add" => DOMAIN routeObjs' = DOMAIN routeObjs \cup {m.p} /\ missed' = missed
      /\ m.cmd = "del" => DOMAIN routeObjs' = DOMAIN routeObjs \ {m.p} /\ missed' = missed \ {m.p}
      /\ m.cmd \notin {"add", "del"} => DOMAIN routeObjs' = DOMAIN routeObjs /\ missed' = missed
  BY ReadEffect, Zenon
<1> HIDE DEF m
<1> SUFFICES ASSUME registered, NEW p \in ZPrefixes
             PROVE  /\ \/ Silent(p)'
                       \/ \E i \in DOMAIN stream' :
                            Latest(i, p)' /\ (stream'[i].cmd = "add" <=> rib'[p] # NoRoute)
                    /\ Silent(p)' /\ p \notin toReplay' =>
                         /\ rib'[p] # NoRoute => p \in DOMAIN routeObjs'
                         /\ p \in DOMAIN routeObjs' => rib'[p] # NoRoute \/ p \in missed'
  BY <1>2, Zenon DEF InStep
<1>3. \A i \in DOMAIN stream' : Concerns(i, p)' <=> Concerns(i + 1, p)
  BY <1>1, Zenon DEF Concerns
<1>4. ASSUME ~Silent(p)'
      PROVE  \E i \in DOMAIN stream' : Latest(i, p)' /\ (stream'[i].cmd = "add" <=> rib'[p] # NoRoute)
  <2>1. PICK k \in DOMAIN stream' : Concerns(k + 1, p)
    BY <1>3, <1>4, Zenon DEF Silent
  <2>2. PICK i \in DOMAIN stream : Latest(i, p) /\ (stream[i].cmd = "add" <=> rib[p] # NoRoute)
    BY <1>1, <2>1, Zenon DEF InStep, Silent
  <2>3. i >= k + 1
    BY <1>1, <2>1, <2>2 DEF Latest
  <2>4. i - 1 \in DOMAIN stream' /\ (i - 1) + 1 = i /\ stream'[i - 1] = stream[i]
    BY <1>1, <2>3
  <2>5. Concerns(i - 1, p)'
    BY <1>3, <2>2, <2>4, Zenon DEF Latest
  <2>6. \A j \in DOMAIN stream' : j > i - 1 => ~Concerns(j, p)'
    BY <1>1, <1>3, <2>2 DEF Latest
  <2> QED
    BY <1>2, <2>2, <2>4, <2>5, <2>6, Zenon DEF Latest
<1>5. ASSUME Silent(p)', p \notin toReplay'
      PROVE  /\ rib'[p] # NoRoute => p \in DOMAIN routeObjs'
             /\ p \in DOMAIN routeObjs' => rib'[p] # NoRoute \/ p \in missed'
  <2>1. \A j \in DOMAIN stream : j > 1 => ~Concerns(j, p)
    <3> TAKE j \in DOMAIN stream
    <3> HAVE j > 1
    <3>1. j - 1 \in DOMAIN stream' /\ (j - 1) + 1 = j
      BY <1>1
    <3> QED
      BY <1>3, <1>5, <3>1, Zenon DEF Silent
  <2>2. CASE Concerns(1, p)
    <3>1. m.cmd = "add" <=> rib[p] # NoRoute
      <4>1. PICK i \in DOMAIN stream : Latest(i, p) /\ (stream[i].cmd = "add" <=> rib[p] # NoRoute)
        BY <1>1, <2>2, Zenon DEF InStep, Silent
      <4>2. i = 1
        BY <1>1, <2>1, <4>1 DEF Latest
      <4> QED
        BY <1>1, <4>1, <4>2, Zenon
    <3> QED
      BY <1>1, <1>2, <2>2, <3>1, Zenon DEF Concerns
  <2>3. CASE ~Concerns(1, p)
    <3>1. Silent(p)
      BY <1>1, <2>1, <2>3 DEF Silent
    <3>2. m.cmd \in {"add", "del"} => m.p # p
      BY <1>1, <2>3, Zenon DEF Concerns
    <3> QED
      BY <1>2, <1>5, <3>1, <3>2, Zenon DEF InStep
  <2> QED
    BY <2>2, <2>3, Zenon
<1> QED
  BY <1>4, <1>5, Zenon

\* The one message that may still be read from a connection that zebra has closed.
LEMMA ReadApart ==
  ASSUME StreamTypes, Apart, ZRead, stream # << >>
  PROVE  Apart'
<1> DEFINE m == Head(stream)
<1>1. /\ Len(stream) \in Nat /\ 1 \in DOMAIN stream /\ m = stream[1] /\ DOMAIN stream = 1..Len(stream)
      /\ stream' = Tail(stream) /\ DOMAIN stream' = 1..(Len(stream) - 1)
      /\ \A i \in DOMAIN stream' : i + 1 \in DOMAIN stream /\ stream'[i] = stream[i + 1]
  BY StreamTail, ReadEffect, Zenon
<1>2. /\ UNCHANGED <<rib, registered, toReplay>> /\ zpc = "read" /\ zpc' \in {"poll", "done"}
      /\ m.cmd = "add" => DOMAIN routeObjs' = DOMAIN routeObjs \cup {m.p} /\ missed' = missed
      /\ m.cmd = "del" => DOMAIN routeObjs' = DOMAIN routeObjs \ {m.p} /\ missed' = missed \ {m.p}
      /\ m.cmd \notin {"add", "del"} => DOMAIN routeObjs' = DOMAIN routeObjs /\ missed' = missed
  BY ReadEffect, Zenon
<1> HIDE DEF m
<1> SUFFICES ASSUME ~registered, NEW p \in ZPrefixes, rib[p] = NoRoute, p \in DOMAIN routeObjs'
             PROVE  p \in missed' \cup Withdrawals(stream')
  BY <1>2, Zenon DEF Apart
<1>3. ~(m.cmd = "del" /\ m.p = p)
  BY <1>2, Zenon
<1>4. p \in missed \cup Withdrawals(stream)
  BY <1>1, <1>2, Zenon DEF Apart
<1>5. CASE p \in missed
  BY <1>2, <1>3, <1>5, Zenon
<1>6. CASE p \in Withdrawals(stream)
  <2>1. PICK j \in DOMAIN stream : stream[j].cmd = "del" /\ stream[j].p = p
    BY <1>6, Zenon DEF Withdrawals
  <2>2. j # 1
    BY <1>1, <1>3, <2>1, Zenon
  <2>3. j - 1 \in DOMAIN stream' /\ stream'[j - 1] = stream[j]
    BY <1>1, <2>2
  <2> QED
    BY <2>1, <2>3, Zenon DEF Withdrawals
<1> QED
  BY <1>4, <1>5, <1>6, Zenon

\* A message is sent that says of its prefix what the RIB now says.
LEMMA SendInStep ==
  ASSUME StreamTypes, InStep, registered, registered', NEW p \in ZPrefixes, NEW m \in ZMsgs,
         m.p = p, m.cmd \in {"add", "del"}, m.cmd = "add" <=> rib'[p] # NoRoute,
         stream' = Append(stream, m), toReplay \subseteq toReplay' \cup {p},
         \A q \in ZPrefixes : q # p => rib'[q] = rib[q],
         UNCHANGED <<routeObjs, missed>>
  PROVE  InStep'
<1>1. PICK n \in Nat :
      /\ DOMAIN stream = 1..n /\ DOMAIN stream' = 1..(n + 1)
      /\ \A i \in DOMAIN stream : stream'[i] = stream[i]
      /\ stream'[n + 1] = m
  BY StreamAppend, Zenon
<1> SUFFICES ASSUME NEW q \in ZPrefixes
             PROVE  /\ \/ Silent(q)'
                       \/ \E i \in DOMAIN stream' :
                            Latest(i, q)' /\ (stream'[i].cmd = "add" <=> rib'[q] # NoRoute)
                    /\ Silent(q)' /\ q \notin toReplay' =>
                         /\ rib'[q] # NoRoute => q \in DOMAIN routeObjs'
                         /\ q \in DOMAIN routeObjs' => rib'[q] # NoRoute \/ q \in missed'
  BY Zenon DEF InStep
<1>2. \A i \in DOMAIN stream : Concerns(i, q)' <=> Concerns(i, q)
  BY <1>1, Zenon DEF Concerns
<1>3. Concerns(n + 1, q)' <=> q = p
  BY <1>1, Zenon DEF Concerns
<1>4. CASE q = p
  <2>1. ~Silent(q)'
    BY <1>1, <1>3, <1>4 DEF Silent
  <2>2. n + 1 \in DOMAIN stream' /\ Latest(n + 1, q)'
    BY <1>1, <1>3, <1>4 DEF Latest
  <2> QED
    BY <1>1, <1>4, <2>1, <2>2, Zenon
<1>5. CASE q # p
  <2>1. \A i \in DOMAIN stream' : Concerns(i, q)' => i \in DOMAIN stream
    <3>1. \A i \in DOMAIN stream' : i \in DOMAIN stream \/ i = n + 1
      BY <1>1
    <3> QED
      BY <1>3, <1>5, <3>1, Zenon
  <2>2. \A i \in DOMAIN stream : i \in DOMAIN stream' /\ (Latest(i, q) => Latest(i, q)')
    <3>1. \A i \in DOMAIN stream : i \in DOMAIN stream'
      BY <1>1
    <3> QED
      BY <1>2, <2>1, <3>1, Zenon DEF Latest
  <2>3. Silent(q) => Silent(q)'
    BY <1>2, <2>1, Zenon DEF Silent
  <2>4. Silent(q)' => Silent(q)
    BY <1>2, <2>2, Zenon DEF Silent
  <2>5. /\ \/ Silent(q)
           \/ \E i \in DOMAIN stream : Latest(i, q) /\ (stream[i].cmd = "add" <=> rib[q] # NoRoute)
        /\ Silent(q) /\ q \notin toReplay =>
             /\ rib[q] # NoRoute => q \in DOMAIN routeObjs
             /\ q \in DOMAIN routeObjs => rib[q] # NoRoute \/ q \in missed
    BY Zenon DEF InStep
  <2>6. rib'[q] = rib[q] /\ routeObjs' = routeObjs /\ missed' = missed /\ (q \in toReplay => q \in toReplay')
    BY <1>5
  <2>7. \A i \in DOMAIN stream : stream'[i] = stream[i]
    BY <1>1
  <2> QED
    BY <2>2, <2>3, <2>4, <2>5, <2>6, <2>7, Zenon
<1> QED
  BY <1>4, <1>5, Zenon

\* Zebra dies: what the client has not read by then it may never learn.
LEMMA DeathApart ==
  ASSUME StreamTypes, SessionOK, InStep, Apart, ZebraDies, zpc # "legacy"
  PROVE  Apart'
<1>1. UNCHANGED <<rib, routeObjs, zpc>>
  BY Zenon DEF ZebraDies, store
<1>2. missed \cup Withdrawals(stream) \subseteq (missed \cup Withdrawals(stream))'
  <2>1. CASE UNCHANGED <<stream, missed>>
    BY <2>1, Zenon DEF Withdrawals
  <2>2. CASE /\ stream # << >> /\ stream' = SubSeq(stream, 1, Len(stream) - 1)
             /\ missed' = missed \cup Withdrawals(<<stream[Len(stream)]>>)
    <3>1. /\ Len(stream) \in Nat /\ DOMAIN stream = 1..Len(stream)
          /\ DOMAIN stream' = 1..(Len(stream) - 1)
          /\ \A i \in DOMAIN stream' : stream'[i] = stream[i]
      BY <2>2, StreamFront, Zenon
    <3> SUFFICES ASSUME NEW i \in DOMAIN stream, stream[i].cmd = "del"
                 PROVE  stream[i].p \in missed' \cup Withdrawals(stream)'
      BY <2>2, Zenon DEF Withdrawals
    <3>2. CASE i = Len(stream)
      <4> DEFINE last == <<stream[Len(stream)]>>
      <4>1. 1 \in DOMAIN last /\ last[1] = stream[i]
        BY <3>2
      <4> HIDE DEF last
      <4>2. stream[i].p \in Withdrawals(last)
        BY <4>1, Zenon DEF Withdrawals
      <4> QED
        BY <2>2, <4>2, Zenon DEF last
    <3>3. CASE i # Len(stream)
      <4>1. i \in DOMAIN stream' /\ stream'[i] = stream[i]
        BY <3>1, <3>3
      <4> QED
        BY <4>1, Zenon DEF Withdrawals
    <3> QED
      BY <3>2, <3>3, Zenon
  <2> QED
    BY <2>1, <2>2, Zenon DEF ZebraDies
<1>3. \A i \in DOMAIN stream' : i \in DOMAIN stream /\ stream'[i] = stream[i]
  BY StreamFront, Zenon DEF ZebraDies
<1> SUFFICES ASSUME NEW p \in ZPrefixes, rib[p] = NoRoute,
                    \/ p \in DOMAIN routeObjs
                    \/ zpc = "read" /\ \E i \in DOMAIN stream : stream[i].cmd = "add" /\ stream[i].p = p
             PROVE  p \in missed \cup Withdrawals(stream)
  BY <1>1, <1>2, <1>3, Zenon DEF Apart
<1>4. CASE ~registered
  BY <1>4, Zenon DEF Apart
<1>5. CASE registered
  <2>1. CASE Silent(p)
    <3>1. p \notin toReplay
      BY Zenon DEF StreamTypes
    <3>2. ~(\E i \in DOMAIN stream : stream[i].cmd = "add" /\ stream[i].p = p)
      BY <2>1, Zenon DEF Silent, Concerns
    <3> QED
      BY <1>5, <2>1, <3>1, <3>2, Zenon DEF InStep
  <2>2. CASE ~Silent(p)
    <3>1. PICK i \in DOMAIN stream : Latest(i, p) /\ (stream[i].cmd = "add" <=> rib[p] # NoRoute)
      BY <1>5, <2>2, Zenon DEF InStep
    <3>2. stream[i].cmd = "del" /\ stream[i].p = p
      BY <3>1, Zenon DEF Latest, Concerns
    <3> QED
      BY <3>2, Zenon DEF Withdrawals
  <2> QED
    BY <2>1, <2>2, Zenon
<1> QED
  BY <1>4, <1>5, Zenon DEF SessionOK

\* Every step keeps a registered client in step with the RIB.
LEMMA StepInStep ==
  ASSUME ZapiInv, [ZapiNext]_zapiVars
  PROVE  InStep'
<1> USE DEF ZapiInv
<1>1. CASE UNCHANGED <<rib, stream, routeObjs, missed, toReplay, registered>>
  BY <1>1 DEF InStep, Silent, Latest, Concerns
<1>2. CASE LegacyMessage
  BY <1>2, Zenon DEF LegacyMessage, SessionOK, InStep, zebra
<1>3. CASE ZConnect
  BY <1>3, Zenon DEF ZConnect, SessionOK, InStep, zebra
<1>4. CASE ZRegister
  <2>1. CASE zsock # "open"
    BY <1>1, <1>4, <2>1, Zenon DEF ZRegister, channel, store, zHist
  <2>2. CASE zsock = "open"
    <3>1. stream' = << >> /\ ~registered /\ zpc # "legacy" /\ stream = << >>
      BY <1>4, Zenon DEF ZRegister, SessionOK, channel
    <3>2. UNCHANGED <<rib, routeObjs, missed>> /\ toReplay' = {p \in ZPrefixes : rib[p] # NoRoute}
      BY <1>4, <2>2, Zenon DEF ZRegister, store, zHist
    <3>3. DOMAIN stream' = {} /\ Withdrawals(stream) = {}
      BY <3>1 DEF Withdrawals
    <3>4. \A p \in ZPrefixes : p \in DOMAIN routeObjs /\ rib[p] = NoRoute => p \in missed
      BY <3>1, <3>3, Zenon DEF Apart
    <3> QED
      BY <3>2, <3>3, <3>4, Zenon DEF InStep, Silent
  <2> QED
    BY <2>1, <2>2, Zenon
<1>5. CASE ZPoll
  BY <1>1, <1>5, Zenon DEF ZPoll, SessionOK, InStep, zebra, channel, store
<1>6. CASE ZRead
  <2>1. CASE stream = << >>
    BY <1>1, <1>6, <2>1, Zenon DEF ZRead, zebra
  <2>2. CASE stream # << >>
    BY <1>6, <2>2, ReadInStep, Zenon
  <2> QED
    BY <2>1, <2>2, Zenon
<1>7. CASE ZTick \/ ZebraRises \/ UNCHANGED zapiVars
  BY <1>1, <1>7, Zenon DEF ZTick, ZebraRises, zapiVars, zebra, channel, store, zHist
<1>8. CASE ZebraNoise
  <2>1. PICK m : stream' = <<m>> /\ m.cmd \in Noise
    BY <1>8 DEF ZebraNoise, Msg
  <2>2. \A i \in DOMAIN stream' : stream'[i].cmd \notin {"add", "del"}
    BY <2>1 DEF Noise
  <2>3. stream = << >> /\ DOMAIN stream = {}
    BY <1>8 DEF ZebraNoise
  <2>4. \A p \in ZPrefixes : Silent(p) /\ Silent(p)'
    BY <2>2, <2>3, Zenon DEF Silent, Concerns
  <2> QED
    BY <1>8, <2>4, Zenon DEF ZebraNoise, InStep, zebra, store, zHist
<1>9. CASE ZebraDies
  BY <1>9, Zenon DEF ZebraDies, InStep
<1>10. ASSUME NEW p \in ZPrefixes, RibReplay(p)
       PROVE  InStep'
  <2>1. registered /\ registered'
    BY <1>10, Zenon DEF RibReplay, SessionOK
  <2>2. rib[p] # NoRoute /\ rib[p] \in PathLists
    BY <1>10, Zenon DEF RibReplay, StreamTypes
  <2> DEFINE m == Msg("add", p, rib[p])
  <2>3. m \in ZMsgs /\ m.p = p /\ m.cmd = "add"
    BY <2>2, Zenon DEF ZMsgs, Msg
  <2>4. stream' = Append(stream, m) /\ toReplay' = toReplay \ {p} /\ UNCHANGED <<rib, routeObjs, missed>>
    BY <1>10, Zenon DEF RibReplay, store, zHist
  <2> HIDE DEF m
  <2> QED
    BY <2>1, <2>2, <2>3, <2>4, SendInStep, Zenon
<1>11. ASSUME NEW p \in ZPrefixes, RibChange(p)
       PROVE  InStep'
  <2>1. CASE ~registered
    BY <1>11, <2>1, Zenon DEF RibChange, InStep
  <2>2. CASE registered
    <3>1. PICK g \in PathLists \cup {NoRoute} :
            /\ rib' = [rib EXCEPT ![p] = g]
            /\ stream' = Append(stream, IF g = NoRoute THEN Msg("del", p, << >>) ELSE Msg("add", p, g))
      BY <1>11, <2>2, Zenon DEF RibChange
    <3> DEFINE m == IF g = NoRoute THEN Msg("del", p, << >>) ELSE Msg("add", p, g)
    <3>2. m \in ZMsgs /\ m.p = p /\ m.cmd \in {"add", "del"} /\ (m.cmd = "add" <=> g # NoRoute)
      BY Zenon DEF ZMsgs, Msg
    <3>3. rib'[p] = g /\ \A q \in ZPrefixes : q # p => rib'[q] = rib[q]
      BY <3>1, Zenon DEF StreamTypes
    <3>4. stream' = Append(stream, m)
      BY <3>1, Zenon
    <3>5. registered' /\ toReplay' = toReplay /\ UNCHANGED <<routeObjs, missed>>
      BY <1>11, <2>2, Zenon DEF RibChange, store
    <3> HIDE DEF m
    <3> QED
      BY <2>2, <3>2, <3>3, <3>4, <3>5, SendInStep, Zenon
  <2> QED
    BY <2>1, <2>2, Zenon
<1> QED
  BY <1>2, <1>3, <1>4, <1>5, <1>6, <1>7, <1>8, <1>9, <1>10, <1>11, Zenon DEF ZapiNext, ZBridge

\* Every step keeps what is known of a client that is not registered.
LEMMA StepApart ==
  ASSUME ZapiInv, [ZapiNext]_zapiVars
  PROVE  Apart'
<1> USE DEF ZapiInv
<1>1. CASE UNCHANGED <<rib, stream, routeObjs, missed, registered, zpc>>
  BY <1>1, Zenon DEF Apart, Withdrawals
<1>2. CASE LegacyMessage
  BY <1>2, Zenon DEF LegacyMessage, Apart
<1>3. CASE ZConnect
  <2>1. stream = << >> /\ stream' = << >> /\ zpc = "connect" /\ zpc' # "read"
    BY <1>3, Zenon DEF ZConnect, SessionOK, channel
  <2>2. UNCHANGED <<rib, registered, routeObjs, missed, stream>>
    BY <1>3, <2>1, Zenon DEF ZConnect, zebra, store, zHist
  <2> QED
    BY <2>1, <2>2 DEF Apart, Withdrawals
<1>4. CASE ZRegister
  <2>1. zpc = "register" /\ zpc' # "read" /\ UNCHANGED <<rib, stream, routeObjs, missed>>
        /\ (~registered' => ~registered)
    BY <1>4, Zenon DEF ZRegister, channel, store, zHist
  <2> QED
    BY <2>1, Zenon DEF Apart, Withdrawals
<1>5. CASE ZPoll
  <2>1. UNCHANGED <<rib, registered, routeObjs>> /\ zpc = "poll"
    BY <1>5, Zenon DEF ZPoll, zebra, store
  <2>2. CASE zsock = "closed" /\ missed' = missed \cup Withdrawals(stream) /\ zpc' # "read"
    BY <2>1, <2>2, Zenon DEF Apart
  <2>3. CASE zsock = "open"
    <3>1. registered
      BY <2>1, <2>3, Zenon DEF SessionOK
    <3> QED
      BY <2>1, <3>1, Zenon DEF Apart
  <2> QED
    BY <1>5, <2>2, <2>3, Zenon DEF ZPoll
<1>6. CASE ZRead
  <2>1. CASE stream = << >>
    <3>1. UNCHANGED <<rib, registered, stream, routeObjs, missed>> /\ zpc = "read" /\ zpc' = "done"
      BY <1>6, <2>1, Zenon DEF ZRead, zebra
    <3> QED
      BY <3>1, Zenon DEF Apart, Withdrawals
  <2>2. CASE stream # << >>
    BY <1>6, <2>2, ReadApart, Zenon
  <2> QED
    BY <2>1, <2>2, Zenon
<1>7. CASE ZTick \/ ZebraRises \/ UNCHANGED zapiVars
  BY <1>1, <1>7, Zenon DEF ZTick, ZebraRises, zapiVars, zebra, channel, store, zHist
<1>8. CASE ZebraNoise
  BY <1>8, Zenon DEF ZebraNoise, Apart, zebra
<1>9. CASE ZebraDies /\ zpc # "legacy"
  BY <1>9, DeathApart, Zenon
<1>10. ASSUME NEW p \in ZPrefixes, RibReplay(p)
       PROVE  Apart'
  BY <1>10, Zenon DEF RibReplay, SessionOK, Apart
<1>11. ASSUME NEW p \in ZPrefixes, RibChange(p)
       PROVE  Apart'
  <2>1. CASE registered
    BY <1>11, <2>1, Zenon DEF RibChange, Apart
  <2>2. CASE ~registered
    <3>1. PICK g \in PathLists \cup {NoRoute} :
            /\ rib' = [rib EXCEPT ![p] = g]
            /\ missed' = IF g = NoRoute THEN missed \cup {p} ELSE missed
      BY <1>11, <2>2, Zenon DEF RibChange
    <3>2. UNCHANGED <<stream, routeObjs, zpc, registered>>
      BY <1>11, <2>2, Zenon DEF RibChange, store
    <3>3. rib'[p] = g /\ \A q \in ZPrefixes : q # p => rib'[q] = rib[q]
      BY <3>1, Zenon DEF StreamTypes
    <3>4. \A q \in ZPrefixes : rib'[q] = NoRoute => rib[q] = NoRoute \/ q \in missed'
      BY <3>1, <3>3, Zenon
    <3>5. missed \subseteq missed'
      BY <3>1, Zenon
    <3> QED
      BY <2>2, <3>2, <3>4, <3>5, Zenon DEF Apart, Withdrawals
  <2> QED
    BY <2>1, <2>2, Zenon
<1> QED
  BY <1>2, <1>3, <1>4, <1>5, <1>6, <1>7, <1>8, <1>9, <1>10, <1>11, Zenon DEF ZapiNext, ZBridge

\* The store follows zebra: whatever zebra announces and withdraws, whenever it dies and
\* however it cuts the stream, a route's paths are those of one announcement of its
\* prefix, and when the session is quiet the prefixes are those of the RIB but for missed
\* withdrawals (zapi.c, zebra_session.c, main_frr_bridge.c).
THEOREM StoreFollowsZebra == ZapiSpec => []FollowsZebra
<1>1. ZapiInit => ZapiInv
  <2> SUFFICES ASSUME ZapiInit PROVE ZapiInv
    BY Zenon
  <2>1. /\ rib = [p \in ZPrefixes |-> NoRoute] /\ said = [p \in ZPrefixes |-> {}]
        /\ stream = << >> /\ nhObjs = << >> /\ grpObjs = << >> /\ routeObjs = << >>
        /\ toReplay = {} /\ registered = FALSE /\ zsock = "none" /\ nextId = 1000
        /\ zpc \in {"connect", "legacy"}
    BY Zenon DEF ZapiInit
  <2>2. << >> \in Seq(ZMsgs) /\ DOMAIN stream = {} /\ DOMAIN routeObjs = {}
        /\ DOMAIN nhObjs = {} /\ DOMAIN grpObjs = {}
    BY <2>1
  <2>3. StoreOK
    BY <2>1, <2>2 DEF StoreOK, PathsWhole
  <2>4. StreamTypes
    BY <2>1, <2>2, Zenon DEF StreamTypes
  <2>5. SessionOK /\ InStep
    BY <2>1, Zenon DEF SessionOK, InStep
  <2>6. Apart
    BY <2>1, <2>2, Zenon DEF Apart
  <2> QED
    BY <2>3, <2>4, <2>5, <2>6, Zenon DEF ZapiInv
<1>2. ZapiInv /\ [ZapiNext]_zapiVars => ZapiInv'
  BY StepStore, StepStream, StepSession, StepInStep, StepApart, Zenon DEF ZapiInv
<1>3. ZapiInv => FollowsZebra
  <2> SUFFICES ASSUME ZapiInv PROVE FollowsZebra
    BY Zenon
  <2>1. PathsWhole
    BY Zenon DEF ZapiInv, StoreOK
  <2>2. QuietInSync
    <3>1. stream = << >> => \A p \in ZPrefixes : Silent(p)
      BY DEF Silent
    <3> QED
      BY <3>1, Zenon DEF ZapiInv, InStep, QuietInSync
  <2> QED
    BY <2>1, <2>2, Zenon DEF FollowsZebra
<1> QED
  BY <1>1, <1>2, <1>3, PTL DEF ZapiSpec
=============================================================================
