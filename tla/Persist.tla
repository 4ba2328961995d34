------------------------------ MODULE Persist ------------------------------
(***************************************************************************)
(* The configuration store and its write-ahead log:                        *)
(* danos-core/src/object/object_registry.c, persist/persist.c, wal/wal.c.  *)
(*                                                                         *)
(* A mutation changes the store under the store's write lock, drops the    *)
(* lock, and only then logs itself: two or three fwrites and a sync, with  *)
(* no lock around them.  The caller gets DANOS_OK whatever the log did.    *)
(* After a crash the log is replayed into an empty store before any other  *)
(* thread starts (danos-mgrd/mgrd.c).                                      *)
(*                                                                         *)
(* The log is a sequence of frames, one for each uninterrupted run of      *)
(* fwrites of one record; a frame is readable when it holds all of them.   *)
(* A CRC mismatch is taken to be always detected.  danos_wal_replay stops  *)
(* at the first frame that is not readable, wherever the next one starts.  *)
(***************************************************************************)
EXTENDS Integers, Sequences, FiniteSets

CONSTANTS Threads,      \* threads that mutate the default store
          Objs,         \* (type, id) keys
          Unlogged,     \* keys the log refuses: id above 2^32 - 1, unmapped type
          Owns,         \* Owns[th]: the keys that thread th mutates
          Vals,         \* object contents
          NoVal,        \* no such object
          NoThread,     \* a frame nobody is writing
          ReplaySlots,  \* REPLAY_SLOTS, 4096 in the code
          MaxOps,       \* bound on the number of mutations
          MaxCrashes,   \* bound on the number of crashes
          Checkpoints   \* whether danos_persist_checkpoint is called

ASSUME KeysAssumption ==
  Objs # {} /\ Unlogged \subseteq Objs /\ Owns \in [Threads -> SUBSET Objs]
ASSUME ValsAssumption == NoVal \notin Vals /\ NoThread \notin Threads
ASSUME BoundsAssumption ==
  MaxOps \in Nat /\ MaxCrashes \in Nat /\ ReplaySlots \in Nat /\ Checkpoints \in BOOLEAN

VARIABLES up,       \* the process runs and has recovered
          store,    \* g_default_store
          file,     \* what has been written to g_wal.fp, flushed or not
          synced,   \* how much of it the last sync put on the disk
          pc, rec,  \* where each thread is, and the record it is logging
          acked,    \* history: the store when the last call returned
          dropped,  \* history: objects a checkpoint threw out of the log
          ops, crashes

vars == <<up, store, file, synced, pc, rec, acked, dropped, ops, crashes>>

Stores == [Objs -> Vals \cup {NoVal}]
Records == [op : {"CREATE", "UPDATE", "DELETE"}, obj : Objs, val : Vals \cup {NoVal}]

\* The fwrites of danos_wal_append; a DELETE has no payload.
Parts(r) == IF r.op = "DELETE" THEN 2 ELSE 3
Frames == [rec : Records, by : Threads \cup {NoThread}, parts : 1..3]
NoRec == [op |-> "DELETE", obj |-> CHOOSE o \in Objs : TRUE, val |-> NoVal]

\* The state's types; a frame never has more fwrites than danos_wal_append makes
\* for a record, so a reader finds its end.
TypeOK ==
  /\ up \in BOOLEAN
  /\ store \in Stores /\ acked \in Stores /\ dropped \subseteq Objs
  /\ file \in Seq(Frames)
  /\ synced \in [frames : Nat, parts : 0..3]
  /\ pc \in [Threads -> {"idle", "header", "data", "crc", "sync"}]
  /\ rec \in [Threads -> Records]
  /\ ops \in 0..MaxOps /\ crashes \in 0..MaxCrashes

Empty == [o \in Objs |-> NoVal]

Init ==
  /\ up = TRUE
  /\ store = Empty /\ acked = Empty /\ dropped = {}
  /\ file = <<>> /\ synced = [frames |-> 0, parts |-> 0]
  /\ pc = [th \in Threads |-> "idle"]
  /\ rec = [th \in Threads |-> NoRec]
  /\ ops = 0 /\ crashes = 0

-----------------------------------------------------------------------------
(* danos_wal_replay and danos_persist_recover *)

Readable(f, i) == f[i].parts = Parts(f[i].rec)

\* The frames replay reaches.
Reached(f) == {i \in DOMAIN f : \A j \in 1..i : Readable(f, j)}

Touching(f, o) == {i \in Reached(f) : f[i].rec.obj = o}

\* The replay table takes an object at its first record while it has a free
\* slot; a deleted object keeps its slot.
FirstSeen(f, i) == \A j \in 1..(i - 1) : f[j].rec.obj # f[i].rec.obj
HasSlot(f, o) ==
  \E i \in Touching(f, o) :
    /\ FirstSeen(f, i)
    /\ Cardinality({j \in 1..(i - 1) : FirstSeen(f, j)}) < ReplaySlots

\* Mutant: the first record of an object decides.
RecoveredFirst(f) ==
  [o \in Objs |->
     IF HasSlot(f, o)
       THEN LET first == CHOOSE i \in Touching(f, o) :
                           \A j \in Touching(f, o) : j >= i
            IN  f[first].rec.val
       ELSE NoVal]

\* Mutant: replay ignores DELETE records.
RecoveredIgnoresDelete(f) ==
  LET Writes(o) == {i \in Touching(f, o) : f[i].rec.op # "DELETE"}
  IN  [o \in Objs |->
         IF HasSlot(f, o) /\ Writes(o) # {}
           THEN f[CHOOSE i \in Writes(o) : \A j \in Writes(o) : j <= i].rec.val
           ELSE NoVal]

\* The last record of an object decides: UPDATE falls back to CREATE on a store
\* without the object, DELETE leaves nothing.
Recovered(f) ==
  [o \in Objs |->
     IF HasSlot(f, o)
       THEN LET last == CHOOSE i \in Touching(f, o) :
                          \A j \in Touching(f, o) : j <= i
            IN  IF f[last].rec.op = "DELETE" THEN NoVal ELSE f[last].rec.val
       ELSE NoVal]

-----------------------------------------------------------------------------
Quiet == up /\ \A th \in Threads : pc[th] = "idle"

At(th, where) == pc' = [pc EXCEPT ![th] = where]

\* danos_object_create, _update and _delete up to danos_persist_on_mutation.  A
\* call that fails (EXISTS, NOT_FOUND) changes nothing.
Mutate(th, r) ==
  /\ up
  /\ pc[th] = "idle"
  /\ ops < MaxOps
  /\ r.obj \in Owns[th]
  /\ CASE r.op = "CREATE" -> store[r.obj] = NoVal /\ r.val # NoVal
       [] r.op = "UPDATE" -> store[r.obj] # NoVal /\ r.val # NoVal
       [] r.op = "DELETE" -> store[r.obj] # NoVal /\ r.val = NoVal
  /\ store' = [store EXCEPT ![r.obj] = r.val]
  /\ rec' = [rec EXCEPT ![th] = r]
  /\ IF r.obj \in Unlogged
       THEN UNCHANGED pc /\ acked' = store'
       ELSE At(th, "header") /\ UNCHANGED acked
  /\ ops' = ops + 1
  /\ UNCHANGED <<up, file, synced, dropped, crashes>>

\* One fwrite.  It extends the thread's own frame unless another thread has
\* written since; then the bytes form a fragment that no reader accepts.
Mine(th) == file # <<>> /\ file[Len(file)].by = th

WriteHeader(th) ==
  /\ pc[th] = "header"
  /\ file' = Append(file, [rec |-> rec[th], by |-> th, parts |-> 1])
  /\ At(th, IF rec[th].op = "DELETE" THEN "crc" ELSE "data")
  /\ UNCHANGED <<up, store, synced, rec, acked, dropped, ops, crashes>>

WriteMore(th) ==
  IF Mine(th)
    THEN file' = [file EXCEPT ![Len(file)].parts = @ + 1]
    ELSE file' = Append(file, [rec |-> rec[th], by |-> th, parts |-> 1])

WriteData(th) ==
  /\ pc[th] = "data"
  /\ WriteMore(th)
  /\ At(th, "crc")
  /\ UNCHANGED <<up, store, synced, rec, acked, dropped, ops, crashes>>

\* Mutant: the last fwrite may be issued again.
WriteCrcAgain(th) ==
  /\ pc[th] = "crc"
  /\ WriteMore(th)
  /\ \E next \in {"crc", "sync"} : At(th, next)
  /\ UNCHANGED <<up, store, synced, rec, acked, dropped, ops, crashes>>

WriteCrc(th) ==
  /\ pc[th] = "crc"
  /\ WriteMore(th)
  /\ At(th, "sync")
  /\ UNCHANGED <<up, store, synced, rec, acked, dropped, ops, crashes>>

\* Mutant: the call returns without having synced the log.
SyncSkipped(th) ==
  /\ pc[th] = "sync"
  /\ At(th, "idle")
  /\ acked' = store /\ dropped' = dropped \ {rec[th].obj}
  /\ UNCHANGED <<up, store, file, synced, rec, ops, crashes>>

\* danos_wal_sync flushes whatever the other threads have written as well; then
\* the call returns to its caller.
Sync(th) ==
  /\ pc[th] = "sync"
  /\ synced' = [frames |-> Len(file),
                parts |-> IF file = <<>> THEN 0 ELSE file[Len(file)].parts]
  /\ At(th, "idle")
  /\ acked' = store /\ dropped' = dropped \ {rec[th].obj}
  /\ UNCHANGED <<up, store, file, rec, ops, crashes>>

\* What the disk may hold after a crash: everything synced, and of the rest as
\* much as happened to be written back.  The cut may fall inside a frame.
Cut(k, p) == [i \in 1..k |-> [file[i] EXCEPT !.by = NoThread,
                                             !.parts = IF i = k THEN p ELSE @]]
Cuts ==
  (IF synced.frames = 0 THEN {<<>>} ELSE {})
  \cup {Cut(c[1], c[2]) :
          c \in {d \in (1..Len(file)) \X (1..3) :
                   /\ d[2] <= file[d[1]].parts
                   /\ \/ d[1] > synced.frames
                      \/ d[1] = synced.frames /\ d[2] >= synced.parts}}

Crash ==
  /\ up
  /\ crashes < MaxCrashes
  /\ up' = FALSE
  /\ file' \in Cuts
  /\ synced' = [frames |-> Len(file'),
                parts |-> IF file' = <<>> THEN 0 ELSE file'[Len(file')].parts]
  /\ store' = Empty
  /\ pc' = [th \in Threads |-> "idle"]
  /\ rec' = [th \in Threads |-> NoRec]
  /\ crashes' = crashes + 1
  /\ UNCHANGED <<acked, dropped, ops>>

\* danos_persist_enable opens the log for append, danos_persist_recover replays
\* it; nothing is logged and the file is left as it is.
Boot ==
  /\ ~up
  /\ up' = TRUE
  /\ store' = Recovered(file)
  /\ acked' = store' /\ dropped' = {}
  /\ UNCHANGED <<file, synced, pc, rec, ops, crashes>>

\* danos_persist_checkpoint, called while nobody logs.
Checkpoint ==
  /\ Checkpoints
  /\ Quiet
  /\ file # <<>>
  /\ file' = <<>>
  /\ synced' = [frames |-> 0, parts |-> 0]
  /\ dropped' = {o \in Objs : store[o] # NoVal}
  /\ UNCHANGED <<up, store, pc, rec, acked, ops, crashes>>

Next ==
  \/ \E th \in Threads :
       \/ \E r \in Records : Mutate(th, r)
       \/ WriteHeader(th) \/ WriteData(th) \/ WriteCrc(th) \/ Sync(th)
  \/ Crash \/ Boot \/ Checkpoint

Spec == Init /\ [][Next]_vars

-----------------------------------------------------------------------------
\* What the log answers for: objects it accepts and no checkpoint has dropped
\* since they were last logged.
Kept == Objs \ (Unlogged \cup dropped)

Agree(s1, s2) == \A o \in Kept : s1[o] = s2[o]

\* A frame that nobody will complete: left by a crash, or cut off by another
\* thread's fwrite.
Damaged ==
  \E i \in DOMAIN file :
    /\ ~Readable(file, i)
    /\ ~ \E th \in Threads :
           i = Len(file) /\ file[i].by = th /\ pc[th] \in {"data", "crc"}

\* The log is undamaged and the replay table has a slot for each of its objects.
Intact == ~Damaged /\ Cardinality({file[i].rec.obj : i \in DOMAIN file}) <= ReplaySlots

\* With one mutating thread, a crash at any moment and with any part of the
\* unsynced log written back recovers the configuration before or after the
\* mutation in progress, never anything else; once the call has returned, only
\* the one after it.  (A log that an earlier crash tore is the subject of
\* Durable.)
CrashAtomic ==
  up /\ Intact => \A f \in Cuts : Agree(Recovered(f), acked) \/ Agree(Recovered(f), store)

\* danos_object_* drop the store's lock before they log, so records may reach the
\* log in another order than the changes reached the store.  Nevertheless, when
\* all calls have returned and no fwrites collided, the log on disk recovers the
\* store.  It does as long as threads mutate different objects; two threads that
\* mutate the same object can break it.
DurableIfIntact ==
  Quiet /\ Intact => \A f \in Cuts : Agree(Recovered(f), store)

\* A checkpoint or a full replay table loses objects, but recovery never brings
\* back a value that a returned call has overwritten or deleted.
NoStaleValue ==
  Quiet /\ ~Damaged =>
    \A f \in Cuts, o \in Objs \ Unlogged : Recovered(f)[o] \in {store[o], NoVal}

\* "Every successful DPA object mutation (create/update/delete) is appended to
\* the WAL and synced" (persist.h): whenever no call is in progress, a crash and
\* danos_persist_recover give back the store.
Durable == Quiet => \A f \in Cuts : Recovered(f) = store

=============================================================================
