------------------------------- MODULE Daemon -------------------------------
(***************************************************************************)
(* The life of the management daemon:                                      *)
(*   danos-mgrd/mgrd.c                        boot, pause, shutdown        *)
(*   danos-core/src/reconciler/reconciler.c   the reconciler's thread      *)
(*   danos-core/src/backend/backend_ops.c     the dirty flag               *)
(*   danos-core/src/persist/persist.c         enable, recover, disable     *)
(*                                                                         *)
(* The reconciler's thread starts first, then the log is replayed into the *)
(* store, then clients are let in; at the end the thread is stopped first  *)
(* and the log closed last, with client connections still open.  A change  *)
(* is made under the store's lock, then logged, then marked, with nothing  *)
(* held.  A pass holds the store's lock for reading.  What a pass does is  *)
(* module Programming; what the log holds is module Persist.               *)
(***************************************************************************)
EXTENDS Integers

CONSTANTS Period,     \* config.reconcile_period_ms, in ticks of 50 ms
          MaxRecords, \* objects in the log (a bound of the model)
          MaxStore,   \* changes of the store (a bound of the model)
          MaxSignals, \* SIGINT and SIGTERM (a bound of the model)
          DClients    \* client connections

ASSUME PeriodAssumption == Period \in Nat \ {0}

VARIABLES mainAt,     \* where main is
          stopAsked,  \* g_stop
          signals,    \* what MaxSignals counts
          toRecover,  \* objects of the log not yet in the store
          logging,    \* g_enabled of persist.c
          recovering, \* g_recovering
          storeVer,   \* changes made to the store
          passed,     \* changes made when the last pass ended
          dirty,      \* g_dirty
          running,    \* g_reconciler->running
          recAt,      \* where the reconciler's thread is
          waited,     \* its local variables
          took,
          backendUp,  \* the netlink socket is open
          recFreed,   \* *g_reconciler is freed
          clientAt,   \* client -> where its change is
          unlogged,   \* history: a change returned before the end without being logged
          age         \* history: ticks for which the store has been ahead of the passes

recVars == <<running, recAt, waited, took, passed, age>>
logVars == <<logging, recovering, toRecover>>
endVars == <<backendUp, recFreed>>
daemonVars ==
  <<mainAt, stopAsked, signals, logVars, storeVer, dirty, recVars, endVars, clientAt, unlogged>>

DaemonInit ==
  /\ mainAt \in {"netlink", "exited"}
  /\ stopAsked = FALSE /\ signals = 0
  /\ toRecover \in 0..MaxRecords /\ logging = FALSE /\ recovering = FALSE
  /\ storeVer = 0 /\ passed = 0 /\ dirty = FALSE
  /\ running = FALSE /\ recAt = "none" /\ waited = 0 /\ took = FALSE /\ age = 0
  /\ backendUp = FALSE /\ recFreed = FALSE
  /\ clientAt = [c \in DClients |-> "idle"] /\ unlogged = FALSE

Alive == mainAt # "exited"
Unlocked == recAt # "passing"

-----------------------------------------------------------------------------
(* The reconciler's thread: ticks, the flag, passes. *)

\* Both tests of running: the thread ends when it has been told to.
\* Mutant: it is not looked at.
NeverTold == TRUE

KeepGoing == running

\* usleep returns.
Tick ==
  /\ Alive /\ recAt = "sleep"
  /\ IF KeepGoing
     THEN /\ recAt' = "take" /\ waited' = waited + 1
          /\ age' = IF passed < storeVer THEN age + 1 ELSE 0
     ELSE recAt' = "none" /\ UNCHANGED <<waited, age>>
  /\ UNCHANGED <<running, took, passed, dirty>>

\* danos_programming_dirty_take reads the flag, and then clears it: a mark that comes
\* in between is lost.
DirtyRead ==
  /\ Alive /\ recAt = "take" /\ recAt' = "clear" /\ took' = dirty
  /\ UNCHANGED <<running, waited, passed, age, dirty>>

\* Mutant: nothing but the flag starts a pass.
DueWhenDirty == took

Due == took \/ waited >= Period

DirtyClear ==
  /\ Alive /\ recAt = "clear" /\ dirty' = FALSE
  /\ IF Due THEN recAt' = "run" /\ waited' = 0 ELSE recAt' = "sleep" /\ UNCHANGED waited
  /\ UNCHANGED <<running, took, passed, age>>

PassBegin ==
  /\ Alive /\ recAt = "run" /\ recAt' = "passing"
  /\ UNCHANGED <<running, waited, took, passed, age, dirty>>

PassEnd ==
  /\ Alive /\ recAt = "passing"
  /\ passed' = storeVer /\ age' = 0
  /\ recAt' = IF KeepGoing THEN "sleep" ELSE "none"
  /\ UNCHANGED <<running, waited, took, dirty>>

reconcile_thread ==
  /\ Tick \/ DirtyRead \/ DirtyClear \/ PassBegin \/ PassEnd
  /\ UNCHANGED <<mainAt, stopAsked, signals, logVars, storeVer, endVars, clientAt, unlogged>>

-----------------------------------------------------------------------------
(* Changes of the store by client connections, which nobody joins or closes. *)

ClientChange(c) ==
  /\ Alive /\ clientAt[c] = "idle" /\ storeVer < MaxStore /\ Unlocked
  /\ mainAt \notin {"netlink", "persist", "recover", "mark", "servers"}
  /\ storeVer' = storeVer + 1 /\ clientAt' = [clientAt EXCEPT ![c] = "log"]
  /\ UNCHANGED <<mainAt, stopAsked, signals, logVars, dirty, recVars, endVars, unlogged>>

\* danos_persist_on_mutation; the caller is not told whether anything was logged.
ClientLog(c) ==
  /\ Alive /\ clientAt[c] = "log" /\ clientAt' = [clientAt EXCEPT ![c] = "mark"]
  /\ unlogged' = (unlogged \/ (mainAt # "exit" /\ (~logging \/ recovering)))
  /\ UNCHANGED <<mainAt, stopAsked, signals, logVars, storeVer, dirty, recVars, endVars>>

\* danos_programming_mark_dirty
ClientMark(c) ==
  /\ Alive /\ clientAt[c] = "mark" /\ clientAt' = [clientAt EXCEPT ![c] = "idle"]
  /\ dirty' = TRUE
  /\ UNCHANGED <<mainAt, stopAsked, signals, logVars, storeVer, recVars, endVars, unlogged>>

-----------------------------------------------------------------------------
(* main *)

NoChange == UNCHANGED <<storeVer, dirty>>

\* danos_netlink_init and danos_reconciler_start; without either the daemon goes on.
StartReconciler ==
  /\ mainAt = "netlink" /\ mainAt' = "persist"
  /\ \E ok \in BOOLEAN :
       /\ backendUp' \in {ok, TRUE} /\ running' = ok
       /\ recAt' = IF ok THEN "sleep" ELSE "none"
  /\ NoChange /\ UNCHANGED <<stopAsked, logVars, waited, took, passed, age, recFreed>>

\* danos_persist_enable; a log that cannot be opened ends the daemon.
PersistEnable ==
  /\ mainAt = "persist"
  /\ \/ mainAt' = "recover" /\ logging' = TRUE /\ recovering' = TRUE
     \/ mainAt' = "exited" /\ UNCHANGED <<logging, recovering>>
  /\ NoChange /\ UNCHANGED <<stopAsked, toRecover, recVars, endVars>>

\* danos_persist_recover: one object after the other, each marked but not logged.
RecoverOne ==
  /\ mainAt = "recover" /\ toRecover > 0 /\ Unlocked
  /\ toRecover' = toRecover - 1 /\ storeVer' = storeVer + 1 /\ mainAt' = "mark"
  /\ UNCHANGED <<stopAsked, logging, recovering, dirty, recVars, endVars>>

RecoverMark ==
  /\ mainAt = "mark" /\ mainAt' = IF recovering THEN "recover" ELSE "servers"
  /\ dirty' = TRUE
  /\ UNCHANGED <<stopAsked, logVars, storeVer, recVars, endVars>>

\* The end of recovery, and the first configuration if the log was empty (--seed).
\* Mutant: g_recovering is left as it was.
RecoverEndFlagged ==
  /\ mainAt = "recover" /\ toRecover = 0
  /\ mainAt' = "servers"
  /\ NoChange /\ UNCHANGED <<stopAsked, logVars, recVars, endVars>>

RecoverEnd ==
  /\ mainAt = "recover" /\ toRecover = 0
  /\ recovering' = FALSE
  /\ \/ mainAt' = "servers" /\ UNCHANGED storeVer
     \/ storeVer = 0 /\ Unlocked /\ mainAt' = "mark" /\ storeVer' = 1
  /\ UNCHANGED <<stopAsked, logging, toRecover, dirty, recVars, endVars>>

\* The gNMI and the metrics server; without either the daemon ends.
StartServers ==
  /\ mainAt = "servers" /\ mainAt' \in {"check", "exited"}
  /\ NoChange /\ UNCHANGED <<stopAsked, logVars, recVars, endVars>>

\* while (!g_stop) pause(): a signal between the test and pause() wakes nobody.
CheckStop ==
  /\ mainAt = "check" /\ mainAt' = IF stopAsked THEN "stop" ELSE "enter"
  /\ NoChange /\ UNCHANGED <<stopAsked, logVars, recVars, endVars>>

EnterPause ==
  /\ mainAt = "enter" /\ mainAt' = "paused"
  /\ NoChange /\ UNCHANGED <<stopAsked, logVars, recVars, endVars>>

\* danos_reconciler_stop
StopReconciler ==
  /\ mainAt = "stop" /\ running' = FALSE /\ mainAt' = IF running THEN "join" ELSE "free"
  /\ NoChange
  /\ UNCHANGED <<stopAsked, logVars, recAt, waited, took, passed, age, endVars>>

\* pthread_join
Join ==
  /\ mainAt = "join" /\ recAt = "none" /\ mainAt' = "free"
  /\ NoChange /\ UNCHANGED <<stopAsked, logVars, recVars, endVars>>

\* danos_reconciler_fini, and danos_netlink_shutdown.
FreeReconciler ==
  /\ mainAt = "free" /\ mainAt' = "close" /\ recFreed' = TRUE
  /\ NoChange /\ UNCHANGED <<stopAsked, logVars, recVars, backendUp>>

CloseBackend ==
  /\ mainAt = "close" /\ mainAt' = "disable" /\ backendUp' = FALSE
  /\ NoChange /\ UNCHANGED <<stopAsked, logVars, recVars, recFreed>>

\* The servers stop listening; danos_persist_disable; the end.
PersistDisable ==
  /\ mainAt = "disable" /\ mainAt' = "exit" /\ logging' = FALSE
  /\ NoChange /\ UNCHANGED <<stopAsked, recovering, toRecover, recVars, endVars>>

Exit ==
  /\ mainAt = "exit" /\ mainAt' = "exited"
  /\ NoChange /\ UNCHANGED <<stopAsked, logVars, recVars, endVars>>

main ==
  /\ \/ StartReconciler \/ PersistEnable \/ RecoverOne \/ RecoverMark \/ RecoverEnd
     \/ StartServers \/ CheckStop \/ EnterPause \/ StopReconciler \/ Join
     \/ FreeReconciler \/ CloseBackend \/ PersistDisable \/ Exit
  /\ UNCHANGED <<signals, clientAt, unlogged>>

on_signal ==
  /\ Alive /\ signals < MaxSignals /\ signals' = signals + 1
  /\ stopAsked' = TRUE /\ mainAt' = IF mainAt = "paused" THEN "check" ELSE mainAt
  /\ UNCHANGED <<logVars, storeVer, dirty, recVars, endVars, clientAt, unlogged>>

DaemonNext ==
  \/ main \/ reconcile_thread \/ on_signal
  \/ \E c \in DClients : ClientChange(c) \/ ClientLog(c) \/ ClientMark(c)

DaemonSpec == DaemonInit /\ [][DaemonNext]_daemonVars

\* Main and the reconciler's thread are scheduled, and main gets the store's lock in one
\* of the thread's sleeps (strong fairness); clients and signals need not come.
DaemonFairness == SF_daemonVars(main) /\ WF_daemonVars(reconcile_thread)

-----------------------------------------------------------------------------
(* Properties. *)

\* A change of the store, whether a client's or recovery's, waits for a pass at most
\* one period: the flag may be cleared by a reader who did not see it set, or belong
\* to a change the last pass has seen already, but the count of ticks makes up for it.
DelayBound == age <= Period

\* Once the client is answered its change is in the log, from the first connection
\* until main closes the log on its way out: recovery, during which nothing is
\* logged, has ended before clients are let in.
ChangesLogged == ~unlogged

\* The thread is gone before what it uses is: its record and the backend's socket.
ThreadGoneFirst == recFreed \/ ~backendUp => recAt = "none"

\* The order of boot and shutdown: clients come after recovery, and the log and what the
\* thread uses go after those who use them.
OrderKept == ChangesLogged /\ ThreadGoneFirst

\* Asked to stop, the daemon ends, in the middle of a pass or of its boot as well;
\* but a signal that falls between main's test of g_stop and its pause() is not
\* noticed before the next one.
StopsWhenAsked == stopAsked ~> (mainAt \in {"exited", "paused"})
=============================================================================
