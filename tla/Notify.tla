------------------------------- MODULE Notify -------------------------------
(***************************************************************************)
(* Notifications:                                                          *)
(*   danos-core/src/event/event_bus.c           the bus                    *)
(*   danos-core/src/object/object_registry.c    what publishes             *)
(*   danos-mgmt/src/gnmi/gnmi.c                 subscriptions with queues  *)
(*   danos-mgmt/src/gnmi/gnmi_grpc.c            the STREAM loops' wake-up  *)
(*                                                                         *)
(* A writer changes the store under the store's lock and publishes the     *)
(* event after it, walking the bus under a lock shared by publishers; the  *)
(* thread of the REST front end subscribes, unsubscribes and polls.  The   *)
(* queues have no lock of their own: two callbacks, or a callback and a    *)
(* poll, must not meet at one queue (QueueExclusive), which today holds    *)
(* because nothing calls that front end beside a writer.                   *)
(***************************************************************************)
EXTENDS Integers, Sequences, FiniteSets

CONSTANTS EventWriters,   \* threads that change the store
          QueueSize,      \* DANOS_GNMI_QUEUE_SIZE
          SubWishes,      \* mask and object type subscribers ask for
          AnyType,        \* DANOS_OBJ_INVALID, no filter
          ObjTypes,       \* object types that change
          QueueExclusive, \* TRUE: callbacks and polls take turns
          MaxEvents,      \* changes of the store (a bound of the model)
          MaxSubs,        \* subscriptions made (a bound of the model)
          NoEvent

ASSUME QueueAssumption == QueueSize \in Nat \ {0}
ASSUME WishesAssumption == \A wish \in SubWishes : wish[1] \in Nat /\ wish[2] # NoEvent
ASSUME TypesAssumption == NoEvent \notin ObjTypes \cup {AnyType}

VARIABLES exists,    \* the object types present in the store, one object each
          published, \* changes so far
          wpc,       \* writer -> "idle", "publish" or "walk"
          event,     \* writer -> the event it publishes
          walk,      \* writer -> subscribers it has yet to visit
          bus,       \* g_event_bus->subs, newest first
          nextSub,   \* next_sub_id
          linked,    \* ids in g_subs
          rest,      \* the REST thread: "idle", "link" or "unregister"
          restSub,   \* the subscription it works on
          queue,     \* id -> its danos_gnmi_queue_t
          storeEpoch,\* g_store_epoch
          freed,     \* history: subscriptions whose memory was freed
          touched,   \* history: freed subscriptions a callback wrote to
          pushed,    \* history: id -> events queued, in order
          polled,    \* history: id -> how many of them were returned by polls
          since      \* history: id -> changes before it was on the bus

writers == <<exists, published, wpc, event, walk>>
subscribers == <<bus, nextSub, linked, rest, restSub, freed, since>>
queues == <<queue, storeEpoch, touched, pushed, polled>>
notifyVars == <<writers, subscribers, queues>>

\* danos_event_type_t.
Created == 1
Updated == 2
Deleted == 3

\* subscribe_store_events_once: the three types, or-ed together.
GrpcMask == 3
GrpcSub(id) == [id |-> id, mask |-> GrpcMask, type |-> NoEvent]
IsGrpc(s) == s.type = NoEvent

EmptyQueue ==
  [entries |-> [i \in 0..(QueueSize - 1) |-> NoEvent], head |-> 0, tail |-> 0,
   count |-> 0, dropped |-> 0]

NotifyInit ==
  /\ exists = {} /\ published = 0
  /\ wpc = [w \in EventWriters |-> "idle"]
  /\ event = [w \in EventWriters |-> NoEvent] /\ walk = [w \in EventWriters |-> << >>]
  /\ bus = << >> /\ nextSub = 1 /\ linked = {} /\ rest = "idle" /\ restSub = 0
  /\ queue = << >> /\ storeEpoch = 0
  /\ freed = {} /\ touched = {} /\ pushed = << >> /\ polled = << >> /\ since = << >>

-----------------------------------------------------------------------------
(* Writers. *)

\* danos_object_create, _update and _delete, up to the release of the store's lock.
Mutate(w) ==
  /\ wpc[w] = "idle" /\ published < MaxEvents
  /\ published' = published + 1
  /\ \E t \in ObjTypes, k \in {Created, Updated, Deleted} :
       /\ (k = Created) <=> (t \notin exists)
       /\ exists' = IF k = Created THEN exists \cup {t}
                    ELSE IF k = Deleted THEN exists \ {t} ELSE exists
       /\ event' = [event EXCEPT ![w] = [kind |-> k, type |-> t, nr |-> published + 1]]
  /\ wpc' = [wpc EXCEPT ![w] = "publish"]
  /\ UNCHANGED <<walk, subscribers, queues>>

NoWalker == \A w \in EventWriters : wpc[w] # "walk"

\* danos_event_publish takes the lock, shared with other publishers.
PublishLock(w) ==
  /\ wpc[w] = "publish"
  /\ QueueExclusive => NoWalker
  /\ wpc' = [wpc EXCEPT ![w] = "walk"] /\ walk' = [walk EXCEPT ![w] = bus]
  /\ UNCHANGED <<exists, published, event, subscribers, queues>>

\* Bit "type" of the mask.
Wanted(mask, kind) == (mask \div (2 ^ kind)) % 2 = 1

\* queue_push: the oldest entry gives way to a new one.
queue_push(q, e) ==
  LET full == q.count >= QueueSize
      room == IF full
              THEN [q EXCEPT !.entries[q.head] = NoEvent, !.head = (q.head + 1) % QueueSize,
                             !.count = q.count - 1, !.dropped = q.dropped + 1]
              ELSE q
  IN [room EXCEPT !.entries[room.tail] = e, !.tail = (room.tail + 1) % QueueSize,
                  !.count = room.count + 1]

\* store_event_cb, and gnmi_event_cb with its filter.
Callback(s, e) ==
  IF IsGrpc(s)
  THEN storeEpoch' = storeEpoch + 1 /\ UNCHANGED <<queue, touched, pushed>>
  ELSE /\ UNCHANGED storeEpoch
       /\ touched' = IF s.id \in freed THEN touched \cup {s.id} ELSE touched
       /\ IF s.id \notin freed /\ s.type \in {AnyType, e.type}
          THEN /\ queue' = [queue EXCEPT ![s.id] = queue_push(@, e)]
               /\ pushed' = [pushed EXCEPT ![s.id] = Append(@, e)]
          ELSE UNCHANGED <<queue, pushed>>

\* The walk goes on after a subscriber that does not want the event.
\* Mutant: it stops there.
StopAtUnwanted(w) == IF Wanted(Head(walk[w]).mask, event[w].kind) THEN Tail(walk[w]) ELSE << >>

Onward(w) == Tail(walk[w])

PublishStep(w) ==
  /\ wpc[w] = "walk" /\ walk[w] # << >>
  /\ walk' = [walk EXCEPT ![w] = Onward(w)]
  /\ IF Wanted(Head(walk[w]).mask, event[w].kind)
     THEN Callback(Head(walk[w]), event[w])
     ELSE UNCHANGED <<queue, storeEpoch, touched, pushed>>
  /\ UNCHANGED <<exists, published, wpc, event, subscribers, polled>>

PublishUnlock(w) ==
  /\ wpc[w] = "walk" /\ walk[w] = << >>
  /\ wpc' = [wpc EXCEPT ![w] = "idle"] /\ event' = [event EXCEPT ![w] = NoEvent]
  /\ UNCHANGED <<exists, published, walk, subscribers, queues>>

-----------------------------------------------------------------------------
(* The REST front end. *)

\* f with an entry for i.
With(f, i, v) == [j \in DOMAIN f \cup {i} |-> IF j = i THEN v ELSE f[j]]

\* danos_event_unsubscribe takes the first entry with the id out of the list.
Unlink(s, id) ==
  IF \A k \in DOMAIN s : s[k].id # id THEN s
  ELSE LET at == CHOOSE k \in DOMAIN s : s[k].id = id /\ \A j \in 1..(k - 1) : s[j].id # id
       IN [j \in 1..(Len(s) - 1) |-> IF j < at THEN s[j] ELSE s[j + 1]]

\* handle_subscribe and danos_gnmi_subscribe: a zero mask is refused; the entry is on
\* the bus, under the exclusive lock, before it is linked into g_subs.
Subscribe ==
  /\ rest = "idle" /\ Cardinality(DOMAIN queue) < MaxSubs /\ NoWalker
  /\ \E wish \in SubWishes :
       wish[1] # 0 /\ bus' = <<[id |-> nextSub, mask |-> wish[1], type |-> wish[2]]>> \o bus
  /\ rest' = "link" /\ restSub' = nextSub /\ nextSub' = nextSub + 1
  /\ queue' = With(queue, nextSub, EmptyQueue)
  /\ pushed' = With(pushed, nextSub, << >>)
  /\ polled' = With(polled, nextSub, 0)
  /\ since' = With(since, nextSub, published)
  /\ UNCHANGED <<writers, linked, freed, storeEpoch, touched>>

\* subscribe_store_events_once, when the first gRPC connection is served.
GrpcSubscribe ==
  /\ NoWalker /\ \A k \in DOMAIN bus : ~IsGrpc(bus[k])
  /\ bus' = <<GrpcSub(nextSub)>> \o bus /\ nextSub' = nextSub + 1
  /\ since' = With(since, nextSub, published)
  /\ UNCHANGED <<writers, linked, rest, restSub, freed, queues>>

Link ==
  /\ rest = "link" /\ rest' = "idle" /\ linked' = linked \cup {restSub}
  /\ UNCHANGED <<writers, bus, nextSub, restSub, freed, since, queues>>

\* danos_gnmi_unsubscribe: unlinked, then taken off the bus under the exclusive lock,
\* then freed.
Unsubscribe ==
  /\ rest = "idle"
  /\ \E i \in linked : linked' = linked \ {i} /\ restSub' = i
  /\ rest' = "unregister"
  /\ UNCHANGED <<writers, bus, nextSub, freed, since, queues>>

Unregister ==
  /\ rest = "unregister" /\ rest' = "idle" /\ NoWalker
  /\ bus' = Unlink(bus, restSub)
  /\ freed' = freed \cup {restSub}
  /\ UNCHANGED <<writers, nextSub, linked, restSub, since, queues>>

\* What queue_pop leaves when it was called until the queue is empty.
Drained(q) == [q EXCEPT !.entries = [j \in DOMAIN @ |-> NoEvent],
                        !.head = (q.head + q.count) % QueueSize, !.count = 0]

\* danos_gnmi_subscribe_poll pops until the queue is empty.
Poll ==
  /\ rest = "idle" /\ (QueueExclusive => NoWalker)
  /\ \E i \in linked :
       /\ queue[i].count > 0
       /\ polled' = [polled EXCEPT ![i] = @ + queue[i].count]
       /\ queue' = [queue EXCEPT ![i] = Drained(queue[i])]
  /\ UNCHANGED <<writers, subscribers, storeEpoch, touched, pushed>>

NotifyNext ==
  \/ \E w \in EventWriters : Mutate(w) \/ PublishLock(w) \/ PublishStep(w) \/ PublishUnlock(w)
  \/ GrpcSubscribe \/ Subscribe \/ Link \/ Unsubscribe \/ Unregister \/ Poll

NotifySpec == NotifyInit /\ [][NotifyNext]_notifyVars

-----------------------------------------------------------------------------
(* Properties. *)

\* No callback runs on a subscription that was freed, although unsubscribing and
\* publishing are on different threads and the bus hands out a bare pointer.
NoUseAfterFree == touched = {}

\* A queue holds exactly the newest events pushed, oldest first from head; the rest
\* were returned by a poll or counted as dropped; free slots are NULL.
QueueExact ==
  \A i \in DOMAIN queue :
    LET q == queue[i]
        P == pushed[i]
        used == {(q.head + k) % QueueSize : k \in 0..(q.count - 1)}
    IN /\ q.count <= QueueSize
       /\ polled[i] + q.dropped + q.count = Len(P)
       /\ \A k \in 0..(q.count - 1) :
            q.entries[(q.head + k) % QueueSize] = P[Len(P) - q.count + 1 + k]
       /\ \A j \in DOMAIN q.entries \ used : q.entries[j] = NoEvent

\* Once its writer has published it, a change made after a subscription came on the
\* bus has been queued for it exactly once if it passes mask and filter, and never
\* otherwise, whatever other subscribers come, go or are not interested.
EveryEventQueued ==
  \A k \in DOMAIN bus :
    ~IsGrpc(bus[k]) =>
      LET s == bus[k]
          unpublished == {event[w].nr : w \in {v \in EventWriters : wpc[v] # "idle"}}
          numbers == {pushed[s.id][j].nr : j \in DOMAIN pushed[s.id]}
      IN /\ Cardinality(numbers) = Len(pushed[s.id])
         /\ \A j \in DOMAIN pushed[s.id] :
              /\ Wanted(s.mask, pushed[s.id][j].kind)
              /\ s.type \in {AnyType, pushed[s.id][j].type}
         /\ s.mask % 16 >= 14 /\ s.type = AnyType =>
              ((since[s.id] + 1)..published) \ unpublished \subseteq numbers

\* Events are delivered: each one wanted, once, in order or counted as dropped, and
\* never into memory that was freed.
EventsExact == NoUseAfterFree /\ QueueExact /\ EveryEventQueued

\* "object-registry events bump the epoch": with no publication under way, the epoch
\* the STREAM loops wait for has counted every change since they subscribed.
EveryChangeBumpsEpoch ==
  \A k \in DOMAIN bus :
    IsGrpc(bus[k]) /\ (\A w \in EventWriters : wpc[w] = "idle") =>
      storeEpoch >= published - since[bus[k].id]
=============================================================================
