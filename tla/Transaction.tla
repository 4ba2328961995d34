---------------------------- MODULE Transaction ----------------------------
(***************************************************************************)
(* The transaction engine, danos-core/src/transaction/transaction.c.       *)
(*                                                                         *)
(* Threads (gNMI connections, the ZAPI bridge, the boot code) call the DPA *)
(* transaction API on handles.  A call first waits for the record's own    *)
(* lock; danos_tx_commit additionally waits, with that lock held, at most  *)
(* one second for the global write lock.  active_count is an atomic that   *)
(* is touched outside every lock, one step after the state it counts.      *)
(*                                                                         *)
(* A call refused with DANOS_ERR_TX_INVALID changes nothing but the        *)
(* caller's program counter.  Records are never recycled: the code has no  *)
(* caller of danos_tx_record_free, so a handle stands for one record.      *)
(***************************************************************************)
EXTENDS Integers, FiniteSets

CONSTANTS Threads,    \* callers of the API
          Txs,        \* handles; each is begun at most once
          NoThread,   \* a lock nobody holds
          NoTx        \* a thread that is in no call

ASSUME ThreadsAssumption == IsFiniteSet(Threads) /\ NoThread \notin Threads
ASSUME TxsAssumption == IsFiniteSet(Txs) /\ NoTx \notin Txs

VARIABLES state,        \* rec->pub.state, "NONE" before danos_tx_begin
          recLock,      \* owner of rec->lock
          writeLock,    \* owner of g_tx_mgr->write_lock
          activeCount,  \* g_tx_mgr->active_count
          pc,           \* where each thread is in its call
          cur,          \* the handle of that call
          timedOut      \* history: transactions aborted by a commit timeout

vars == <<state, recLock, writeLock, activeCount, pc, cur, timedOut>>

TxStates == {"NONE", "OPEN", "PREPARE", "VALIDATE", "COMMIT", "VERIFY", "DONE",
             "ABORT", "ROLLBACK"}

\* Calls that have been made and still wait for rec->lock.
Ops == {"prepare", "validate", "commit", "verify", "abort", "rollback"}

\* Steps inside a call: begin has yet to count the transaction; commit waits
\* for the write lock, has it, or has yet to release it; a finished
\* transaction has yet to be discounted.
Steps == {"begin", "commit_wait", "commit_set", "commit_unlock", "count_down"}

\* The state's types.  active_count is unsigned in danos_tx_manager_t: that it is
\* a natural number here says that its decrements never wrap it.
TypeOK ==
  /\ state \in [Txs -> TxStates]
  /\ recLock \in [Txs -> Threads \cup {NoThread}]
  /\ writeLock \in Threads \cup {NoThread}
  /\ activeCount \in Nat
  /\ pc \in [Threads -> {"idle"} \cup Ops \cup Steps]
  /\ cur \in [Threads -> Txs \cup {NoTx}]
  /\ timedOut \subseteq Txs

Init ==
  /\ state = [t \in Txs |-> "NONE"]
  /\ recLock = [t \in Txs |-> NoThread]
  /\ writeLock = NoThread
  /\ activeCount = 0
  /\ pc = [th \in Threads |-> "idle"]
  /\ cur = [th \in Threads |-> NoTx]
  /\ timedOut = {}

-----------------------------------------------------------------------------
At(th, where) == pc' = [pc EXCEPT ![th] = where]
In(th, t) == cur' = [cur EXCEPT ![th] = t]
Return(th) == At(th, "idle") /\ In(th, NoTx)
SetState(t, s) == state' = [state EXCEPT ![t] = s]

\* danos_tx_begin up to the copy of the record into the caller's handle.
Begin(th, t) ==
  /\ pc[th] = "idle"
  /\ state[t] = "NONE"
  /\ SetState(t, "OPEN")
  /\ At(th, "begin") /\ In(th, t)
  /\ UNCHANGED <<recLock, writeLock, activeCount, timedOut>>

\* ... and the increment that follows it.
BeginCount(th) ==
  /\ pc[th] = "begin"
  /\ activeCount' = activeCount + 1
  /\ Return(th)
  /\ UNCHANGED <<state, recLock, writeLock, timedOut>>

\* The handle exists for other callers once danos_tx_begin has returned.
Begun(t) ==
  /\ state[t] # "NONE"
  /\ \A th \in Threads : ~(pc[th] = "begin" /\ cur[th] = t)

\* Any operation may be called on any handle, in any order.
Call(th, op, t) ==
  /\ pc[th] = "idle"
  /\ Begun(t)
  /\ At(th, op) /\ In(th, t)
  /\ UNCHANGED <<state, recLock, writeLock, activeCount, timedOut>>

\* pthread_mutex_lock(&rec->lock) has succeeded in a call of op.
Locked(th, op) == pc[th] = op /\ recLock[cur[th]] = NoThread

\* The states in which an operation is accepted.
Accepts ==
  [prepare  |-> {"OPEN"},
   validate |-> {"PREPARE"},
   commit   |-> {"VALIDATE"},
   verify   |-> {"COMMIT"},
   abort    |-> {"OPEN", "PREPARE", "VALIDATE"},
   rollback |-> {"COMMIT", "VERIFY"}]

\* DANOS_ERR_TX_INVALID.
Refused(th, op) ==
  /\ Locked(th, op)
  /\ state[cur[th]] \notin Accepts[op]
  /\ Return(th)
  /\ UNCHANGED <<state, recLock, writeLock, activeCount, timedOut>>

Prepare(th) ==
  /\ Locked(th, "prepare")
  /\ state[cur[th]] \in Accepts["prepare"]
  /\ SetState(cur[th], "PREPARE")
  /\ Return(th)
  /\ UNCHANGED <<recLock, writeLock, activeCount, timedOut>>

Validate(th) ==
  /\ Locked(th, "validate")
  /\ state[cur[th]] \in Accepts["validate"]
  /\ SetState(cur[th], "VALIDATE")
  /\ Return(th)
  /\ UNCHANGED <<recLock, writeLock, activeCount, timedOut>>

\* Mutant: rec->lock is dropped before the wait for the write lock.
CommitEnterDropsLock(th) ==
  /\ Locked(th, "commit")
  /\ state[cur[th]] \in Accepts["commit"]
  /\ At(th, "commit_wait")
  /\ UNCHANGED <<state, recLock, writeLock, activeCount, cur, timedOut>>

\* danos_tx_commit keeps rec->lock while it waits for the write lock.
CommitEnter(th) ==
  /\ Locked(th, "commit")
  /\ state[cur[th]] \in Accepts["commit"]
  /\ recLock' = [recLock EXCEPT ![cur[th]] = th]
  /\ At(th, "commit_wait")
  /\ UNCHANGED <<state, writeLock, activeCount, cur, timedOut>>

\* Mutant: the result of pthread_mutex_timedlock is not looked at.
CommitLockUnchecked(th) ==
  /\ pc[th] = "commit_wait"
  /\ writeLock' = th
  /\ At(th, "commit_set")
  /\ UNCHANGED <<state, recLock, activeCount, cur, timedOut>>

CommitLock(th) ==
  /\ pc[th] = "commit_wait"
  /\ writeLock = NoThread
  /\ writeLock' = th
  /\ At(th, "commit_set")
  /\ UNCHANGED <<state, recLock, activeCount, cur, timedOut>>

\* Mutant: the timeout path returns without unlocking the record.
CommitTimeoutKeepsLock(th) ==
  /\ pc[th] = "commit_wait"
  /\ writeLock # NoThread
  /\ SetState(cur[th], "ABORT")
  /\ timedOut' = timedOut \cup {cur[th]}
  /\ Return(th)
  /\ UNCHANGED <<recLock, writeLock, activeCount>>

\* ETIMEDOUT: only while somebody else has the lock; active_count is left as
\* it is.
CommitTimeout(th) ==
  /\ pc[th] = "commit_wait"
  /\ writeLock # NoThread
  /\ SetState(cur[th], "ABORT")
  /\ timedOut' = timedOut \cup {cur[th]}
  /\ recLock' = [recLock EXCEPT ![cur[th]] = NoThread]
  /\ Return(th)
  /\ UNCHANGED <<writeLock, activeCount>>

CommitSet(th) ==
  /\ pc[th] = "commit_set"
  /\ SetState(cur[th], "COMMIT")
  /\ recLock' = [recLock EXCEPT ![cur[th]] = NoThread]
  /\ At(th, "commit_unlock")
  /\ UNCHANGED <<writeLock, activeCount, cur, timedOut>>

CommitUnlock(th) ==
  /\ pc[th] = "commit_unlock"
  /\ writeLock' = NoThread
  /\ Return(th)
  /\ UNCHANGED <<state, recLock, activeCount, timedOut>>

\* VERIFY is set and overwritten by DONE under the same lock.
Verify(th) ==
  /\ Locked(th, "verify")
  /\ state[cur[th]] \in Accepts["verify"]
  /\ SetState(cur[th], "DONE")
  /\ At(th, "count_down")
  /\ UNCHANGED <<recLock, writeLock, activeCount, cur, timedOut>>

\* Mutant: the test that the transaction can still be aborted is dropped.
AbortAlways(th) ==
  /\ Locked(th, "abort")
  /\ SetState(cur[th], "ABORT")
  /\ At(th, "count_down")
  /\ UNCHANGED <<recLock, writeLock, activeCount, cur, timedOut>>

Abort(th) ==
  /\ Locked(th, "abort")
  /\ state[cur[th]] \in Accepts["abort"]
  /\ SetState(cur[th], "ABORT")
  /\ At(th, "count_down")
  /\ UNCHANGED <<recLock, writeLock, activeCount, cur, timedOut>>

Rollback(th) ==
  /\ Locked(th, "rollback")
  /\ state[cur[th]] \in Accepts["rollback"]
  /\ SetState(cur[th], "ROLLBACK")
  /\ At(th, "count_down")
  /\ UNCHANGED <<recLock, writeLock, activeCount, cur, timedOut>>

CountDown(th) ==
  /\ pc[th] = "count_down"
  /\ activeCount' = activeCount - 1
  /\ Return(th)
  /\ UNCHANGED <<state, recLock, writeLock, timedOut>>

\* A thread inside a call takes its next step.
Step(th) ==
  \/ BeginCount(th)
  \/ \E op \in Ops : Refused(th, op)
  \/ Prepare(th) \/ Validate(th)
  \/ CommitEnter(th) \/ CommitLock(th) \/ CommitTimeout(th)
  \/ CommitSet(th) \/ CommitUnlock(th)
  \/ Verify(th) \/ Abort(th) \/ Rollback(th)
  \/ CountDown(th)

Next ==
  \E th \in Threads :
    \/ \E t \in Txs : Begin(th, t) \/ \E op \in Ops : Call(th, op, t)
    \/ Step(th)

Spec == Init /\ [][Next]_vars

\* A thread that is in a call is scheduled; pthread_mutex_timedlock returns
\* within its second, with the lock or without it.  Nobody has to call.
\* Strong fairness on rec->lock is not assumed.
FairSpec == Spec /\ \A th \in Threads : WF_vars(Step(th))

-----------------------------------------------------------------------------
Live == {t \in Txs : state[t] \in {"OPEN", "PREPARE", "VALIDATE", "COMMIT"}}
Beginning == {th \in Threads : pc[th] = "begin"}
Finishing == {th \in Threads : pc[th] = "count_down"}
Committing == {th \in Threads : pc[th] \in {"commit_set", "commit_unlock"}}

\* At most one thread is between taking and releasing the global write lock in
\* danos_tx_commit, and it is the lock's owner: commits are serialised although
\* the record lock is given up before the write lock.
SingleWriter == \A th \in Committing : writeLock = th

\* active_count, which danos_tx_begin, verify, abort and rollback change after
\* they have dropped the record lock, is off by exactly the calls still on their
\* way plus the transactions a commit timeout aborted without discounting them:
\* no interleaving of calls loses or repeats an update.
ActiveCountExact ==
  activeCount + Cardinality(Beginning)
    = Cardinality(Live) + Cardinality(timedOut) + Cardinality(Finishing)

\* The edges of the lifecycle OPEN -> PREPARE -> VALIDATE -> COMMIT -> DONE with
\* its aborts and its rollback.
LifecycleEdges ==
  {<<"NONE", "OPEN">>, <<"OPEN", "PREPARE">>, <<"PREPARE", "VALIDATE">>,
   <<"VALIDATE", "COMMIT">>, <<"COMMIT", "DONE">>, <<"COMMIT", "ROLLBACK">>,
   <<"OPEN", "ABORT">>, <<"PREPARE", "ABORT">>, <<"VALIDATE", "ABORT">>}

\* Whatever the threads do with a shared handle, a record moves along the
\* lifecycle only: the state danos_tx_commit checked still holds after its wait
\* of up to a second for the write lock, so an aborted transaction never commits
\* and a finished one never changes again.
Lifecycle ==
  [][\A t \in Txs : state'[t] # state[t]
                      => <<state[t], state'[t]>> \in LifecycleEdges]_vars

\* Every API call returns: no thread waits for ever for a record lock or for the
\* write lock, because the commit that holds a record lock gives up after its
\* second.
CallsReturn == \A th \in Threads : pc[th] # "idle" ~> pc[th] = "idle"
=============================================================================
