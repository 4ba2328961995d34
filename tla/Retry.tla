------------------------------- MODULE Retry -------------------------------
(***************************************************************************)
(* How often things are tried again:                                       *)
(*   danos-core/src/antiflap/antiflap.c  repairs of one object             *)
(*   danos-ha/src/supervisor.c           restarts of one process           *)
(*                                                                         *)
(* Every operation runs to its end before the next: the first under the    *)
(* context's mutex, the second on one thread.                              *)
(***************************************************************************)
EXTENDS Integers, Sequences, FiniteSets

CONSTANTS Keys,         \* objects under repair
          MaxEntries,   \* entries of the table, 256 in the code
          Window,       \* config.window_ms
          MaxRepairs,   \* config.max_count
          MaxTime,      \* length of a run (a bound of the model)
          MaxAllowed,   \* repairs of one object (a bound of the model)
          Procs,        \* supervised processes
          MaxProcs,     \* SUP_MAX_PROCS
          MinDelay,     \* restart_min_ms
          MaxDelayMs,   \* restart_max_ms
          MaxRestarts,  \* restarts before giving up, 10 in the code
          MaxExits,     \* exits of one process (a bound of the model)
          Critical      \* the critical processes

ASSUME RetryAssumption ==
  /\ Window \in Nat \ {0} /\ MaxRepairs \in Nat \ {0}
  /\ MinDelay \in Nat /\ MaxDelayMs \in Nat /\ MaxRestarts \in Nat

VARIABLES now,
          entry,        \* tracked key -> [count, start, flapping]
          allowed,      \* history: key -> times of the repairs allowed since it was cleared
          proc          \* registered process -> [state, restarts, delay]

flapVars == <<now, entry, allowed>>
retryVars == <<flapVars, proc>>

RetryInit ==
  /\ now = 0 /\ entry = << >> /\ allowed = [k \in Keys |-> << >>]
  /\ proc = << >>

-----------------------------------------------------------------------------
(* antiflap.c *)

\* find_entry and create_entry: no entry comes of a table that is full.
Fresh == [count |-> 0, start |-> 0, flapping |-> FALSE]
Tracked(k) == k \in DOMAIN entry
EntryOf(k) == IF Tracked(k) THEN entry[k] ELSE Fresh
Put(k, e) == entry' = [j \in DOMAIN entry \cup {k} |-> IF j = k THEN e ELSE entry[j]]

\* The window is a fixed one: it begins with a repair and is over Window later.
\* Mutant: a new window keeps the old start.
CountedFromOldStart(e) ==
  IF e.count = 0 THEN [e EXCEPT !.start = now, !.count = 1]
  ELSE IF now - e.start > Window THEN [e EXCEPT !.count = 1]
  ELSE [e EXCEPT !.count = @ + 1]

Counted(e) ==
  IF e.count = 0 \/ now - e.start > Window THEN [e EXCEPT !.start = now, !.count = 1]
  ELSE [e EXCEPT !.count = @ + 1]

\* antiflap_check_and_record.  A flapping object stays so until it is cleared; an
\* object beyond the table's size is never refused.
antiflap_check_and_record(k) ==
  /\ Len(allowed[k]) < MaxAllowed
  /\ IF ~Tracked(k) /\ Cardinality(DOMAIN entry) >= MaxEntries
     THEN UNCHANGED <<entry, allowed>>
     ELSE LET e == EntryOf(k)
              c == Counted(e)
              over == c.count > MaxRepairs
          IN IF e.flapping
             THEN UNCHANGED <<entry, allowed>>
             ELSE /\ Put(k, [c EXCEPT !.flapping = over])
                  /\ allowed' = IF over THEN allowed ELSE [allowed EXCEPT ![k] = Append(@, now)]
  /\ UNCHANGED <<now, proc>>

antiflap_clear(k) ==
  /\ Tracked(k)
  /\ entry' = [entry EXCEPT ![k] = Fresh]
  /\ allowed' = [allowed EXCEPT ![k] = << >>]
  /\ UNCHANGED <<now, proc>>

Pass == now < MaxTime /\ now' = now + 1 /\ UNCHANGED <<entry, allowed, proc>>

-----------------------------------------------------------------------------
(* supervisor.c *)

\* A name that is registered, or a full table, is refused.
danos_sup_register(p) ==
  /\ p \notin DOMAIN proc /\ Cardinality(DOMAIN proc) < MaxProcs
  /\ proc' = [q \in DOMAIN proc \cup {p} |->
                IF q = p THEN [state |-> "stopped", restarts |-> 0, delay |-> MinDelay] ELSE proc[q]]
  /\ UNCHANGED flapVars

danos_sup_unregister(p) ==
  /\ p \in DOMAIN proc
  /\ proc' = [q \in DOMAIN proc \ {p} |-> proc[q]]
  /\ UNCHANGED flapVars

\* Only what is stopped is started: a process that is restarting stays so.
danos_sup_start ==
  /\ proc' = [q \in DOMAIN proc |->
                IF proc[q].state = "stopped" THEN [proc[q] EXCEPT !.state = "running"] ELSE proc[q]]
  /\ UNCHANGED flapVars

\* The counts are kept.
danos_sup_stop ==
  /\ proc' = [q \in DOMAIN proc |-> [proc[q] EXCEPT !.state = "stopped"]]
  /\ UNCHANGED flapVars

\* The delay doubles up to the cap.
Doubled(d) == IF 2 * d > MaxDelayMs THEN MaxDelayMs ELSE 2 * d

danos_sup_on_exit(p) ==
  /\ p \in DOMAIN proc /\ proc[p].restarts < MaxExits
  /\ LET n == proc[p].restarts + 1 IN
     proc' = [proc EXCEPT ![p] =
       [restarts |-> n, delay |-> Doubled(proc[p].delay),
        state |-> IF n <= MaxRestarts THEN "restarting"
                  ELSE IF p \in Critical THEN "safe_mode" ELSE "failed"]]
  /\ UNCHANGED flapVars

FlapNext ==
  \/ \E k \in Keys : antiflap_check_and_record(k) \/ antiflap_clear(k)
  \/ Pass

SupNext ==
  \/ \E p \in Procs : danos_sup_register(p) \/ danos_sup_unregister(p) \/ danos_sup_on_exit(p)
  \/ danos_sup_start \/ danos_sup_stop

RetrySpec == RetryInit /\ [][FlapNext \/ SupNext]_retryVars

-----------------------------------------------------------------------------
(* Properties. *)

\* However repairs fall across two of the fixed windows, a period as long as the
\* window sees fewer than twice max_count repairs of an object in the table.
\* (Not max_count, as for a sliding window.)
RepairBound ==
  \A k \in DOMAIN entry : \A i \in DOMAIN allowed[k] :
    Cardinality({j \in DOMAIN allowed[k] :
                   allowed[k][j] \in allowed[k][i]..(allowed[k][i] + Window)}) < 2 * MaxRepairs

Doublings[n \in Nat] == IF n = 0 THEN 1 ELSE 2 * Doublings[n - 1]

\* The delay is the smallest one doubled once per exit, up to the cap, over any
\* sequence of starts, stops and exits; and nobody restarts a process that has
\* used up its restarts.
BackoffExact ==
  \A p \in DOMAIN proc :
    /\ proc[p].delay = LET d == MinDelay * Doublings[proc[p].restarts]
                       IN IF d > MaxDelayMs /\ proc[p].restarts > 0 THEN MaxDelayMs ELSE d
    /\ proc[p].state = "restarting" => proc[p].restarts \in 1..MaxRestarts

\* Neither repairs nor restarts come more often than the two limiters allow.
RetryBounded == RepairBound /\ BackoffExact
=============================================================================
