--------------------------- MODULE ServicesProofs ---------------------------
(***************************************************************************)
(* Proofs about the transactions, the daemon's life, the comparison of two *)
(* stores, the fixed tables and the limits on retries.                     *)
(***************************************************************************)
EXTENDS Transaction, Daemon, StateDiff, Tables, Retry, FiniteSetTheorems, SequenceTheorems,
        WellFoundedInduction, TLAPS

-----------------------------------------------------------------------------
(* The transaction manager, for every finite set of threads and handles. *)

\* A thread that is not idle is in a call on a handle that has been begun.
InCall ==
  \A th \in Threads : pc[th] # "idle" => cur[th] \in Txs /\ state[cur[th]] # "NONE"

\* A handle that is still being begun is open and known to its creator only.
FreshHandle ==
  \A th \in Threads : pc[th] = "begin" =>
    /\ state[cur[th]] = "OPEN"
    /\ \A other \in Threads \ {th} : pc[other] # "idle" => cur[other] # cur[th]

\* From the test of the state to the assignment of COMMIT the caller owns the
\* record, so the state is still the one it tested.
OwnsRecord ==
  \A th \in Threads : pc[th] \in {"commit_wait", "commit_set"}
    => recLock[cur[th]] = th /\ state[cur[th]] = "VALIDATE"

\* VERIFY is never seen outside the record lock.
NoVerify == \A t \in Txs : state[t] # "VERIFY"

\* A commit that timed out left its transaction aborted.
TimedOutAborted == \A t \in timedOut : state[t] = "ABORT"

\* The conjuncts that say who owns what.
Ownership ==
  /\ InCall /\ FreshHandle /\ OwnsRecord
  /\ NoVerify /\ TimedOutAborted /\ SingleWriter

TxInv ==
  /\ TypeOK
  /\ InCall
  /\ FreshHandle
  /\ OwnsRecord
  /\ NoVerify
  /\ TimedOutAborted
  /\ SingleWriter
  /\ ActiveCountExact

\* The sets that ActiveCountExact counts are finite.
LEMMA CountedFinite ==
  ASSUME TypeOK
  PROVE  /\ IsFiniteSet(Live) /\ IsFiniteSet(timedOut)
         /\ IsFiniteSet(Beginning) /\ IsFiniteSet(Finishing)
         /\ Cardinality(Live) \in Nat /\ Cardinality(timedOut) \in Nat
         /\ Cardinality(Beginning) \in Nat /\ Cardinality(Finishing) \in Nat
<1>1. Live \subseteq Txs /\ timedOut \subseteq Txs
  BY Zenon DEF Live, TypeOK
<1>2. Beginning \subseteq Threads /\ Finishing \subseteq Threads
  BY Zenon DEF Beginning, Finishing
<1>3. /\ IsFiniteSet(Live) /\ IsFiniteSet(timedOut)
      /\ IsFiniteSet(Beginning) /\ IsFiniteSet(Finishing)
  BY <1>1, <1>2, FS_Subset, ThreadsAssumption, TxsAssumption, Zenon
<1> QED
  BY <1>3, FS_CardinalityType, Zenon

\* No transaction is open at first.
LEMMA TxInvInit == Init => TxInv
<1> SUFFICES ASSUME Init PROVE TxInv
  BY Zenon
<1>1. TypeOK
  BY Zenon DEF Init, TypeOK, TxStates
<1>2. InCall /\ FreshHandle /\ OwnsRecord /\ NoVerify /\ TimedOutAborted /\ SingleWriter
  BY Zenon DEF Init, InCall, FreshHandle, OwnsRecord, NoVerify, TimedOutAborted, SingleWriter, Committing
<1>3. Live = {} /\ Beginning = {} /\ Finishing = {} /\ timedOut = {}
  BY Zenon DEF Init, Live, Beginning, Finishing
<1>4. ActiveCountExact
  BY <1>3, FS_EmptySet DEF Init, ActiveCountExact
<1> QED
  BY <1>1, <1>2, <1>4, Zenon DEF TxInv

\* A step that leaves the counted sets and the counter alone keeps the count.
LEMMA CountUnchanged ==
  ASSUME ActiveCountExact, Live' = Live, Beginning' = Beginning,
         Finishing' = Finishing, timedOut' = timedOut, activeCount' = activeCount
  PROVE  ActiveCountExact'
BY Zenon DEF ActiveCountExact

\* A live transaction that leaves Live while its thread goes to count_down.
LEMMA CountFinish ==
  ASSUME TypeOK, ActiveCountExact, NEW th \in Threads, NEW t \in Live,
         th \notin Finishing,
         Live' = Live \ {t}, Finishing' = Finishing \cup {th},
         Beginning' = Beginning, timedOut' = timedOut, activeCount' = activeCount
  PROVE  ActiveCountExact'
<1>1. Cardinality(Live') = Cardinality(Live) - 1
  BY FS_RemoveElement, CountedFinite, Zenon
<1>2. Cardinality(Finishing') = Cardinality(Finishing) + 1
  BY FS_AddElement, CountedFinite, Zenon
<1> QED
  BY <1>1, <1>2, CountedFinite DEF ActiveCountExact, TypeOK

\* Every handle being begun is live, and no two threads begin the same one: a
\* thread that is about to discount a transaction finds a positive count.
LEMMA CountPositive ==
  ASSUME TypeOK, Ownership, ActiveCountExact, NEW th \in Finishing
  PROVE  activeCount >= 1
<1> DEFINE handle == [b \in Beginning |-> cur[b]]
<1>1. handle \in Injection(Beginning, Live)
  BY DEF Injection, IsInjective, Beginning, Live, Ownership, InCall, FreshHandle
<1>2. Cardinality(Beginning) <= Cardinality(Live)
  <2> HIDE DEF handle
  <2> QED
    BY <1>1, FS_Injection, CountedFinite, Zenon
<1>3. Cardinality(Finishing) >= 1
  BY FS_EmptySet, CountedFinite
<1> QED
  BY <1>2, <1>3, CountedFinite DEF ActiveCountExact, TypeOK

\* Every step of the transaction pool keeps its types.
LEMMA NextTypeOK ==
  TypeOK /\ Ownership /\ ActiveCountExact /\ [Next]_vars => TypeOK'
<1> SUFFICES ASSUME TypeOK, Ownership, ActiveCountExact, [Next]_vars PROVE TypeOK'
  BY Zenon
<1> USE DEF TypeOK, Ownership, InCall, At, In, Return, SetState, TxStates, Ops, Steps
<1>1. CASE UNCHANGED vars
  BY <1>1, Zenon DEF vars
<1>2. ASSUME NEW th \in Threads, NEW t \in Txs, Begin(th, t) PROVE TypeOK'
  BY <1>2, Zenon DEF Begin
<1>3. ASSUME NEW th \in Threads, NEW t \in Txs, NEW op \in Ops, Call(th, op, t)
      PROVE TypeOK'
  BY <1>3, Zenon DEF Call
<1>4. ASSUME NEW th \in Threads, Step(th) PROVE TypeOK'
  <2>1. CASE BeginCount(th)
    BY <2>1 DEF BeginCount
  <2>2. ASSUME NEW op \in Ops, Refused(th, op) PROVE TypeOK'
    BY <2>2, Zenon DEF Refused
  <2>3. CASE Prepare(th) \/ Validate(th)
    BY <2>3 DEF Prepare, Validate, Locked
  <2>4. CASE CommitEnter(th) \/ CommitLock(th)
    BY <2>4 DEF CommitEnter, CommitLock, Locked
  <2>5. CASE CommitTimeout(th)
    BY <2>5, Zenon DEF CommitTimeout
  <2>6. CASE CommitSet(th) \/ CommitUnlock(th)
    BY <2>6 DEF CommitSet, CommitUnlock
  <2>7. CASE Verify(th) \/ Abort(th) \/ Rollback(th)
    BY <2>7, Zenon DEF Verify, Abort, Rollback, Locked
  <2>8. CASE CountDown(th)
    <3>1. activeCount >= 1
      BY <2>8, CountPositive, Zenon DEF CountDown, Finishing
    <3> QED
      BY <2>8, <3>1 DEF CountDown
  <2> QED
    BY <1>4, <2>1, <2>2, <2>3, <2>4, <2>5, <2>6, <2>7, <2>8, Zenon DEF Step
<1> QED
  BY <1>1, <1>2, <1>3, <1>4, Zenon DEF Next

\* Every step keeps a slot in the hands of one thread.
LEMMA NextOwnership == TypeOK /\ Ownership /\ [Next]_vars => Ownership'
<1> SUFFICES ASSUME TypeOK, Ownership, [Next]_vars PROVE Ownership'
  BY Zenon
<1> USE DEF TypeOK, Ownership, InCall, FreshHandle, OwnsRecord, NoVerify, TimedOutAborted,
            SingleWriter, Committing, At, In, Return, SetState
<1>1. CASE UNCHANGED vars
  BY <1>1 DEF vars
<1>2. ASSUME NEW th \in Threads, NEW t \in Txs, Begin(th, t) PROVE Ownership'
  BY <1>2 DEF Begin
<1>3. ASSUME NEW th \in Threads, NEW t \in Txs, NEW op \in Ops, Call(th, op, t)
      PROVE Ownership'
  BY <1>3 DEF Call, Begun, Ops
<1>4. ASSUME NEW th \in Threads, Step(th) PROVE Ownership'
  <2>1. CASE BeginCount(th)
    BY <2>1 DEF BeginCount
  <2>2. ASSUME NEW op \in Ops, Refused(th, op) PROVE Ownership'
    BY <2>2 DEF Refused, Locked, Ops
  <2>3. CASE Prepare(th) \/ Validate(th)
    BY <2>3, ThreadsAssumption DEF Prepare, Validate, Locked, Accepts
  <2>4. CASE CommitEnter(th)
    BY <2>4, ThreadsAssumption DEF CommitEnter, Locked, Accepts
  <2>5. CASE CommitLock(th)
    BY <2>5, ThreadsAssumption DEF CommitLock
  <2>6. CASE CommitTimeout(th)
    BY <2>6, ThreadsAssumption DEF CommitTimeout
  <2>7. CASE CommitSet(th)
    BY <2>7, ThreadsAssumption DEF CommitSet
  <2>8. CASE CommitUnlock(th)
    BY <2>8, ThreadsAssumption DEF CommitUnlock
  <2>9. CASE Verify(th) \/ Abort(th) \/ Rollback(th)
    <3>1. CASE Verify(th)
      BY <3>1, ThreadsAssumption DEF Verify, Locked, Accepts
    <3>2. CASE Abort(th)
      BY <3>2, ThreadsAssumption DEF Abort, Locked, Accepts
    <3>3. CASE Rollback(th)
      BY <3>3, ThreadsAssumption DEF Rollback, Locked, Accepts
    <3> QED
      BY <2>9, <3>1, <3>2, <3>3, Zenon
  <2>10. CASE CountDown(th)
    BY <2>10 DEF CountDown
  <2> QED
    BY <1>4, <2>1, <2>2, <2>3, <2>4, <2>5, <2>6, <2>7, <2>8, <2>9, <2>10, Zenon DEF Step
<1> QED
  BY <1>1, <1>2, <1>3, <1>4, Zenon DEF Next

\* Every step keeps activeCount the number of open transactions.
LEMMA NextCount ==
  TypeOK /\ Ownership /\ ActiveCountExact /\ [Next]_vars => ActiveCountExact'
<1> SUFFICES ASSUME TypeOK, Ownership, ActiveCountExact, [Next]_vars
             PROVE  ActiveCountExact'
  BY Zenon
<1> USE DEF TypeOK, At, In, Return, SetState, Live, Beginning, Finishing
<1>1. CASE UNCHANGED vars
  BY <1>1, CountUnchanged, Zenon DEF vars
<1>2. ASSUME NEW th \in Threads, NEW t \in Txs, Begin(th, t)
      PROVE  ActiveCountExact'
  <2>1. t \notin Live /\ Live' = Live \cup {t}
    BY <1>2, Zenon DEF Begin
  <2>2. th \notin Beginning /\ Beginning' = Beginning \cup {th}
    BY <1>2, Zenon DEF Begin
  <2>3. Finishing' = Finishing /\ timedOut' = timedOut /\ activeCount' = activeCount
    BY <1>2, Zenon DEF Begin
  <2>4. /\ Cardinality(Live') = Cardinality(Live) + 1
        /\ Cardinality(Beginning') = Cardinality(Beginning) + 1
    <3> HIDE DEF Live, Beginning, Finishing, TypeOK
    <3> QED  BY <2>1, <2>2, FS_AddElement, CountedFinite, Zenon
  <2> HIDE DEF Live, Beginning, Finishing
  <2> QED
    BY <2>3, <2>4, CountedFinite DEF ActiveCountExact
<1>3. ASSUME NEW th \in Threads, NEW t \in Txs, NEW op \in Ops, Call(th, op, t)
      PROVE ActiveCountExact'
  BY <1>3, CountUnchanged, Zenon DEF Call, Ops
<1>4. ASSUME NEW th \in Threads, Step(th) PROVE ActiveCountExact'
  <2>1. CASE BeginCount(th)
    <3>1. th \in Beginning /\ Beginning' = Beginning \ {th}
      BY <2>1, Zenon DEF BeginCount
    <3>2. Live' = Live /\ Finishing' = Finishing /\ timedOut' = timedOut
      BY <2>1, Zenon DEF BeginCount
    <3>3. activeCount' = activeCount + 1
      BY <2>1, Zenon DEF BeginCount
    <3> HIDE DEF Live, Beginning, Finishing
    <3>4. Cardinality(Beginning') = Cardinality(Beginning) - 1
      BY <3>1, FS_RemoveElement, CountedFinite, Zenon
    <3> QED
      BY <3>2, <3>3, <3>4, CountedFinite DEF ActiveCountExact
  <2>2. ASSUME NEW op \in Ops, Refused(th, op) PROVE ActiveCountExact'
    BY <2>2, CountUnchanged, Zenon DEF Refused, Locked, Ops
  <2>3. CASE Prepare(th) \/ Validate(th)
    BY <2>3, CountUnchanged, Zenon DEF Prepare, Validate, Locked, Accepts
  <2>4. CASE CommitEnter(th) \/ CommitLock(th)
    BY <2>4, CountUnchanged, Zenon DEF CommitEnter, CommitLock, Locked
  <2>5. CASE CommitTimeout(th)
    <3> DEFINE t == cur[th]
    <3>1. t \in Live /\ t \notin timedOut /\ Live' = Live \ {t}
      BY <2>5 DEF CommitTimeout, Ownership, InCall, OwnsRecord, TimedOutAborted
    <3>2. Beginning' = Beginning /\ Finishing' = Finishing
      BY <2>5, Zenon DEF CommitTimeout
    <3>3. timedOut' = timedOut \cup {t} /\ activeCount' = activeCount
      BY <2>5, Zenon DEF CommitTimeout
    <3> HIDE DEF t, Live, Beginning, Finishing
    <3>4. /\ Cardinality(Live') = Cardinality(Live) - 1
          /\ Cardinality(timedOut') = Cardinality(timedOut) + 1
      BY <3>1, <3>3, FS_AddElement, FS_RemoveElement, CountedFinite, Zenon
    <3> QED
      BY <3>2, <3>3, <3>4, CountedFinite DEF ActiveCountExact
  <2>6. CASE CommitSet(th)
    BY <2>6, CountUnchanged DEF CommitSet, Ownership, InCall, OwnsRecord
  <2>7. CASE CommitUnlock(th)
    BY <2>7, CountUnchanged, Zenon DEF CommitUnlock
  <2>8. CASE Verify(th) \/ Abort(th) \/ Rollback(th)
    <3> DEFINE t == cur[th]
    <3>1. t \in Live /\ Live' = Live \ {t}
      BY <2>8, Zenon DEF Verify, Abort, Rollback, Locked, Accepts, Ownership, InCall, NoVerify
    <3>2. th \notin Finishing /\ Finishing' = Finishing \cup {th}
      BY <2>8 DEF Verify, Abort, Rollback, Locked
    <3>3. Beginning' = Beginning /\ timedOut' = timedOut /\ activeCount' = activeCount
      BY <2>8, Zenon DEF Verify, Abort, Rollback, Locked
    <3> HIDE DEF t, Live, Beginning, Finishing
    <3> QED
      BY <3>1, <3>2, <3>3, CountFinish, Zenon
  <2>9. CASE CountDown(th)
    <3>1. th \in Finishing /\ Finishing' = Finishing \ {th}
      BY <2>9, Zenon DEF CountDown
    <3>2. Live' = Live /\ Beginning' = Beginning /\ timedOut' = timedOut
      BY <2>9, Zenon DEF CountDown
    <3>3. activeCount' = activeCount - 1
      BY <2>9, Zenon DEF CountDown
    <3> HIDE DEF Live, Beginning, Finishing
    <3>4. Cardinality(Finishing') = Cardinality(Finishing) - 1
      BY <3>1, FS_RemoveElement, CountedFinite, Zenon
    <3> QED
      BY <3>2, <3>3, <3>4, CountedFinite DEF ActiveCountExact
  <2> QED
    BY <1>4, <2>1, <2>2, <2>3, <2>4, <2>5, <2>6, <2>7, <2>8, <2>9, Zenon DEF Step
<1> QED
  BY <1>1, <1>2, <1>3, <1>4, Zenon DEF Next

\* Every step keeps the invariant of the pool.
LEMMA TxInvInductive == TxInv /\ [Next]_vars => TxInv'
BY NextTypeOK, NextOwnership, NextCount, Zenon DEF TxInv, Ownership

\* The invariant of the pool holds throughout.
LEMMA TxInvariance == Spec => []TxInv
BY TxInvInit, TxInvInductive, PTL DEF Spec

\* The variables of the transaction engine keep their types; in particular the
\* unsigned active_count never wraps below zero.
THEOREM TypeCorrect == Spec => []TypeOK
BY TxInvariance, PTL DEF TxInv

\* Commits are serialised for every number of threads and handles.
THEOREM SingleWriterCorrect == Spec => []SingleWriter
BY TxInvariance, PTL DEF TxInv

\* active_count is exact up to the calls in flight and the commit timeouts.
THEOREM ActiveCountCorrect == Spec => []ActiveCountExact
BY TxInvariance, PTL DEF TxInv

\* A record only ever moves along the lifecycle, for any interleaving of calls
\* on a shared handle.
THEOREM LifecycleCorrect == Spec => Lifecycle
<1> DEFINE Edge == \A t \in Txs : state'[t] # state[t]
                     => <<state[t], state'[t]>> \in LifecycleEdges
<1>1. TxInv /\ [Next]_vars => [Edge]_vars
  <2> SUFFICES ASSUME TxInv, Next PROVE Edge
    BY Zenon
  <2> USE DEF TxInv, TypeOK, InCall, OwnsRecord, NoVerify, LifecycleEdges, SetState
  <2>1. ASSUME NEW th \in Threads, NEW t \in Txs,
               Begin(th, t) \/ \E op \in Ops : Call(th, op, t)
        PROVE Edge
    BY <2>1 DEF Begin, Call
  <2>2. ASSUME NEW th \in Threads, Step(th) PROVE Edge
    <3>1. CASE BeginCount(th) \/ CountDown(th) \/ \E op \in Ops : Refused(th, op)
      BY <3>1, Zenon DEF BeginCount, CountDown, Refused
    <3>2. CASE Prepare(th) \/ Validate(th)
      <4>1. CASE Prepare(th)
        BY <4>1, Zenon DEF Prepare, Locked, Accepts
      <4>2. CASE Validate(th)
        BY <4>2 DEF Validate, Locked, Accepts
      <4> QED
        BY <3>2, <4>1, <4>2, Zenon
    <3>3. CASE CommitEnter(th) \/ CommitLock(th) \/ CommitUnlock(th)
      BY <3>3, Zenon DEF CommitEnter, CommitLock, CommitUnlock
    <3>4. CASE CommitTimeout(th)
      BY <3>4, Zenon DEF CommitTimeout
    <3>5. CASE CommitSet(th)
      BY <3>5, Zenon DEF CommitSet
    <3>6. CASE Verify(th) \/ Abort(th) \/ Rollback(th)
      <4>1. CASE Verify(th)
        BY <4>1, Zenon DEF Verify, Locked, Accepts
      <4>2. CASE Abort(th)
        BY <4>2, Zenon DEF Abort, Locked, Accepts
      <4>3. CASE Rollback(th)
        BY <4>3, Zenon DEF Rollback, Locked, Accepts
      <4> QED
        BY <3>6, <4>1, <4>2, <4>3, Zenon
    <3> QED
      BY <2>2, <3>1, <3>2, <3>3, <3>4, <3>5, <3>6, Zenon DEF Step
  <2> QED
    BY <2>1, <2>2, Zenon DEF Next
<1> QED
  BY <1>1, TxInvariance, PTL DEF Spec, Lifecycle

-----------------------------------------------------------------------------
(* The daemon. *)

Booting == {"netlink", "persist", "recover", "mark", "servers"}
Serving == {"check", "enter", "paused", "stop", "join"}
Closing == {"free", "close", "disable"}

\* Who is there at each point of main's way.
LifeOK ==
  /\ mainAt \in Booting \cup Serving \cup Closing \cup {"exit", "exited"}
  /\ mainAt \in Booting => \A c \in DClients : clientAt[c] = "idle"
  /\ clientAt \in [DClients -> {"idle", "log", "mark"}]
  /\ mainAt \in {"recover", "mark"} => logging
  /\ mainAt \in {"servers"} \cup Serving \cup Closing => logging /\ ~recovering
  /\ recAt # "none" => backendUp /\ ~recFreed
  /\ mainAt \in Closing \cup {"exit"} => recAt = "none"
  /\ mainAt # "join" /\ ~running => recAt = "none"
  /\ mainAt = "netlink" => recAt = "none" /\ ~recFreed
  /\ mainAt \in {"persist", "recover", "mark", "servers"} \cup Serving => ~recFreed
  /\ ~unlogged

\* Every step keeps who is there in step with main's way.
LEMMA StepLife ==
  ASSUME LifeOK, [DaemonNext]_daemonVars
  PROVE  LifeOK'
<1> USE DEF LifeOK, Booting, Serving, Closing
<1>1. CASE main
  <2> USE DEF main, logVars, recVars, endVars
  <2>1. CASE StartReconciler
    <3>1. /\ mainAt = "netlink" /\ mainAt' = "persist"
          /\ UNCHANGED <<logging, recovering, recFreed, clientAt, unlogged>>
      BY <1>1, <2>1, Zenon DEF StartReconciler
    <3>2. PICK ok \in BOOLEAN : /\ backendUp' \in {ok, TRUE} /\ running' = ok
                               /\ recAt' = IF ok THEN "sleep" ELSE "none"
      BY <2>1, Zenon DEF StartReconciler
    <3>3. CASE ok = TRUE
      <4>1. backendUp' = TRUE /\ running' = TRUE
        BY <3>2, <3>3, Zenon
      <4> QED
        BY <3>1, <4>1, Zenon
    <3>4. CASE ok = FALSE
      <4>1. recAt' = "none"
        BY <3>2, <3>4, Zenon
      <4> QED
        BY <3>1, <4>1, Zenon
    <3> QED
      BY <3>3, <3>4, Zenon
  <2>2. CASE PersistEnable
    BY <1>1, <2>2, Zenon DEF PersistEnable
  <2>3. CASE RecoverOne
    BY <1>1, <2>3, Zenon DEF RecoverOne
  <2>4. CASE RecoverMark
    BY <1>1, <2>4, Zenon DEF RecoverMark
  <2>5. CASE RecoverEnd
    BY <1>1, <2>5, Zenon DEF RecoverEnd
  <2>6. CASE StartServers
    BY <1>1, <2>6, Zenon DEF StartServers
  <2>7. CASE CheckStop \/ EnterPause
    <3>1. CASE CheckStop
      BY <1>1, <3>1, Zenon DEF CheckStop
    <3>2. CASE EnterPause
      BY <1>1, <3>2, Zenon DEF EnterPause
    <3> QED
      BY <2>7, <3>1, <3>2, Zenon
  <2>8. CASE StopReconciler
    BY <1>1, <2>8, Zenon DEF StopReconciler
  <2>9. CASE Join
    BY <1>1, <2>9, Zenon DEF Join
  <2>10. CASE FreeReconciler
    BY <1>1, <2>10, Zenon DEF FreeReconciler
  <2>11. CASE CloseBackend
    BY <1>1, <2>11, Zenon DEF CloseBackend
  <2>12. CASE PersistDisable \/ Exit
    BY <1>1, <2>12, Zenon DEF PersistDisable, Exit
  <2> QED
    BY <1>1, <2>1, <2>2, <2>3, <2>4, <2>5, <2>6, <2>7, <2>8, <2>9, <2>10, <2>11, <2>12, Zenon DEF main
<1>2. CASE reconcile_thread
  <2>1. UNCHANGED <<mainAt, running, logging, recovering, backendUp, recFreed, clientAt, unlogged>>
    BY <1>2, Zenon DEF reconcile_thread, Tick, DirtyRead, DirtyClear, PassBegin, PassEnd, logVars, endVars
  <2>2. recAt # "none"
    BY <1>2, Zenon DEF reconcile_thread, Tick, DirtyRead, DirtyClear, PassBegin, PassEnd
  <2> QED
    BY <2>1, <2>2, Zenon
<1>3. CASE on_signal
  BY <1>3, Zenon DEF on_signal, logVars, recVars, endVars
<1>4. ASSUME NEW c \in DClients, ClientChange(c) \/ ClientLog(c) \/ ClientMark(c)
      PROVE  LifeOK'
  <2>1. UNCHANGED <<mainAt, running, recAt, logging, recovering, backendUp, recFreed>>
    BY <1>4, Zenon DEF ClientChange, ClientLog, ClientMark, logVars, recVars, endVars
  <2>2. mainAt \notin Booting /\ mainAt # "exited"
    BY <1>4, Zenon DEF ClientChange, ClientLog, ClientMark, Alive
  <2>3. clientAt' \in [DClients -> {"idle", "log", "mark"}]
    BY <1>4, Zenon DEF ClientChange, ClientLog, ClientMark
  <2>4. ~unlogged'
    BY <1>4, <2>2, Zenon DEF ClientChange, ClientLog, ClientMark
  <2> QED
    BY <2>1, <2>2, <2>3, <2>4, Zenon
<1>5. CASE UNCHANGED daemonVars
  BY <1>5, Zenon DEF daemonVars, logVars, recVars, endVars
<1> QED
  BY <1>1, <1>2, <1>3, <1>4, <1>5, ZenonT(30) DEF DaemonNext

\* For any number of clients, records and signals: clients come after recovery and
\* before the log is closed, so each answered change is logged; and the reconciler's
\* record and the backend's socket outlive its thread (mgrd.c, reconciler.c, persist.c).
THEOREM LifeIsOrdered == DaemonSpec => []OrderKept
<1>1. DaemonInit => LifeOK
  BY Zenon DEF DaemonInit, LifeOK, Booting, Serving, Closing
<1>2. LifeOK /\ [DaemonNext]_daemonVars => LifeOK'
  BY StepLife, Zenon
<1>3. LifeOK => OrderKept
  BY Zenon DEF LifeOK, OrderKept, ChangesLogged, ThreadGoneFirst
<1> QED
  BY <1>1, <1>2, <1>3, PTL DEF DaemonSpec

\* The count of ticks runs at least as long as the store has been ahead, and a pass is
\* due when it reaches the period.
AgeOK ==
  /\ waited \in Nat /\ age \in Nat
  /\ recAt \in {"none", "sleep", "take", "clear", "run", "passing"}
  /\ recAt = "sleep" => waited < Period /\ age <= waited
  /\ recAt \in {"take", "clear"} => waited <= Period /\ age <= waited
  /\ recAt \in {"run", "passing"} => waited = 0
  /\ mainAt = "netlink" => recAt = "none" /\ waited = 0 /\ age = 0
  /\ age <= Period

\* Every step keeps the count of ticks no less than the age of a change.
LEMMA StepAge ==
  ASSUME AgeOK, [DaemonNext]_daemonVars
  PROVE  AgeOK'
<1> USE PeriodAssumption DEF AgeOK
<1>1. CASE main
  <2>1. mainAt' # "netlink" /\ UNCHANGED <<waited, age>>
    BY <1>1, Zenon DEF main, StartReconciler, PersistEnable, RecoverOne, RecoverMark, RecoverEnd,
         StartServers, CheckStop, EnterPause, StopReconciler, Join, FreeReconciler, CloseBackend,
         PersistDisable, Exit, recVars
  <2>2. recAt' = recAt \/ (mainAt = "netlink" /\ recAt' \in {"none", "sleep"})
    BY <1>1, Zenon DEF main, StartReconciler, PersistEnable, RecoverOne, RecoverMark, RecoverEnd,
         StartServers, CheckStop, EnterPause, StopReconciler, Join, FreeReconciler, CloseBackend,
         PersistDisable, Exit, recVars
  <2> QED
    BY <2>1, <2>2
<1>2. CASE reconcile_thread
  <2>1. mainAt' = mainAt
    BY <1>2, Zenon DEF reconcile_thread
  <2>2. CASE Tick
    BY <2>1, <2>2 DEF Tick
  <2>3. CASE DirtyRead
    BY <2>1, <2>3, Zenon DEF DirtyRead
  <2>4. CASE DirtyClear
    BY <2>1, <2>4 DEF DirtyClear, Due
  <2>5. CASE PassBegin
    BY <2>1, <2>5, Zenon DEF PassBegin
  <2>6. CASE PassEnd
    BY <2>1, <2>6 DEF PassEnd
  <2> QED
    BY <1>2, <2>2, <2>3, <2>4, <2>5, <2>6, Zenon DEF reconcile_thread
<1>3. CASE on_signal
  BY <1>3, Zenon DEF on_signal, recVars
<1>4. CASE \E c \in DClients : ClientChange(c) \/ ClientLog(c) \/ ClientMark(c)
  BY <1>4, Zenon DEF ClientChange, ClientLog, ClientMark, recVars
<1>5. CASE UNCHANGED daemonVars
  BY <1>5, Zenon DEF daemonVars, recVars
<1> QED
  BY <1>1, <1>2, <1>3, <1>4, <1>5, Zenon DEF DaemonNext

\* For any period, however changes, marks, lost marks and passes interleave, the store is
\* ahead of the passes for at most one period of ticks (reconcile_thread of reconciler.c,
\* the flag of backend_ops.c).
THEOREM DelayIsBounded == DaemonSpec => []DelayBound
<1>1. DaemonInit => AgeOK
  BY PeriodAssumption DEF DaemonInit, AgeOK
<1>2. AgeOK /\ [DaemonNext]_daemonVars => AgeOK'
  BY StepAge, Zenon
<1>3. AgeOK => DelayBound
  BY Zenon DEF AgeOK, DelayBound
<1> QED
  BY <1>1, <1>2, <1>3, PTL DEF DaemonSpec

-----------------------------------------------------------------------------
(* The comparison of two stores. *)

Jobs == [store : {"desired", "programmed"}, obj : DiffObjs, val : Contents]

\* While the lock is held the desired store stands still and equality is recorded.
DiffOK ==
  /\ desired \in [DiffObjs -> Contents \cup {Absent}]
  /\ programmed \in [DiffObjs -> Contents \cup {Absent}]
  /\ setting \in [Setters -> Jobs \cup {Absent}]
  /\ holding \in BOOLEAN /\ toVisit \subseteq DiffObjs
  /\ holding => \A o \in DiffObjs : desired[o] = programmed[o] => o \in equal
  /\ UnreportedWasEqual

\* Every step keeps what the comparison knows of the two stores.
LEMMA StepDiff ==
  ASSUME DiffOK, [DiffNext]_diffVars
  PROVE  DiffOK'
<1> USE DEF DiffOK, UnreportedWasEqual
<1>1. ASSUME Meet, UNCHANGED differ, holding => desired' = desired,
             desired' \in [DiffObjs -> Contents \cup {Absent}],
             programmed' \in [DiffObjs -> Contents \cup {Absent}],
             setting' \in [Setters -> Jobs \cup {Absent}]
      PROVE  DiffOK'
  BY <1>1, Zenon DEF Meet, differ
<1>2. ASSUME NEW t \in Setters, SetCreate(t)
      PROVE  DiffOK'
  <2>1. PICK o \in DiffObjs, c \in Contents, k \in {"desired", "programmed"} :
          LET s == IF k = "desired" THEN desired ELSE programmed
              written == [s EXCEPT ![o] = c]
          IN /\ k = "desired" => ~holding
             /\ IF s[o] = Absent
                THEN /\ desired' = IF k = "desired" THEN written ELSE desired
                     /\ programmed' = IF k = "programmed" THEN written ELSE programmed
                     /\ UNCHANGED setting
                ELSE /\ setting' = [setting EXCEPT ![t] = [store |-> k, obj |-> o, val |-> c]]
                     /\ UNCHANGED diffStores
    BY <1>2, Zenon DEF SetCreate
  <2>2. [store |-> k, obj |-> o, val |-> c] \in Jobs
    BY Zenon DEF Jobs
  <2>3. Meet /\ UNCHANGED differ
    BY <1>2, Zenon DEF SetCreate
  <2> QED
    BY <1>1, <2>1, <2>2, <2>3, Zenon DEF diffStores
<1>3. ASSUME NEW t \in Setters, SetUpdate(t)
      PROVE  DiffOK'
  <2>1. setting[t] \in Jobs
    BY <1>3, Zenon DEF SetUpdate
  <2>2. Meet /\ UNCHANGED differ /\ setting' = [setting EXCEPT ![t] = Absent]
    BY <1>3, Zenon DEF SetUpdate
  <2> DEFINE j == setting[t]
  <2>3. j.store \in {"desired", "programmed"} /\ j.obj \in DiffObjs /\ j.val \in Contents
    BY <2>1, Zenon DEF Jobs
  <2>4. CASE j.store = "desired"
    BY <1>1, <1>3, <2>2, <2>3, <2>4, Zenon DEF SetUpdate
  <2>5. CASE j.store = "programmed"
    BY <1>1, <1>3, <2>2, <2>3, <2>5, Zenon DEF SetUpdate
  <2> QED
    BY <2>3, <2>4, <2>5, Zenon
<1>4. ASSUME NEW t \in Setters, Delete(t)
      PROVE  DiffOK'
  BY <1>1, <1>4, Zenon DEF Delete
<1>5. CASE DiffLock
  BY <1>5, Zenon DEF DiffLock, diffStores
<1>6. CASE DiffSize
  <2>1. PICK o \in toVisit :
          /\ toVisit' = toVisit \ {o}
          /\ IF programmed[o] = Absent
             THEN diffs' = diffs \cup {o} /\ visiting' = visiting
             ELSE visiting' = o /\ diffs' = diffs
    BY <1>6, Zenon DEF DiffSize
  <2>2. visiting = Absent /\ holding /\ UNCHANGED <<desired, programmed, holding, setting, equal>>
    BY <1>6, Zenon DEF DiffSize, diffStores
  <2> QED
    BY <2>1, <2>2, AbsentAssumption, Zenon
<1>7. CASE DiffCompare
  BY <1>7, Zenon DEF DiffCompare, Same, diffStores
<1>8. CASE DiffUnlock
  BY <1>8, Zenon DEF DiffUnlock, diffStores
<1>9. CASE UNCHANGED diffVars
  BY <1>9, Zenon DEF diffVars, diffStores, differ
<1> QED
  BY <1>2, <1>3, <1>4, <1>5, <1>6, <1>7, <1>8, <1>9, Zenon DEF DiffNext

\* For any objects, contents and setters: an object that the walk passes without a
\* report was equal in both stores at a moment of the walk, although its size and its
\* contents are read at two moments (danos_state_diff_desired_programmed).
THEOREM SilenceMeansEqual == DiffSpec => []UnreportedWasEqual
<1>1. DiffInit => DiffOK
  BY Zenon DEF DiffInit, DiffOK, UnreportedWasEqual
<1>2. DiffOK /\ [DiffNext]_diffVars => DiffOK'
  BY StepDiff, Zenon
<1>3. DiffOK => UnreportedWasEqual
  BY Zenon DEF DiffOK
<1> QED
  BY <1>1, <1>2, <1>3, PTL DEF DiffSpec

-----------------------------------------------------------------------------
(* The tables. *)

Below == {ss \in Nat \X Nat : ss[1] < ss[2]}

\* Every set of naturals that is not empty has a least element; what a search from slot 0
\* finds is the first slot that qualifies.
LEMMA LeastElement ==
  ASSUME NEW T \in SUBSET Nat, T # {}
  PROVE  \E x \in T : \A y \in T : x <= y
<1>1. IsWellFoundedOn(Below, Nat)
  BY NatLessThanWellFounded, Zenon DEF OpToRel, Below
<1>2. PICK x \in T : \A y \in T : ~(<<y, x>> \in Below)
  BY <1>1, WFMin, Zenon
<1>3. \A y \in T : x \in Nat /\ y \in Nat /\ ~(y < x)
  BY <1>2, Zenon DEF Below
<1> QED
  BY <1>3

\* The first free slot of a table is one of its free slots.
LEMMA FirstFound ==
  ASSUME NEW T \in SUBSET Nat, T # {}
  PROVE  First(T) \in T
BY LeastElement, Zenon DEF First

\* A set whose members are all equal has at most one.
LEMMA AtMostOne ==
  ASSUME NEW T, \A x, y \in T : x = y
  PROVE  Cardinality(T) <= 1
<1>1. CASE T = {}
  BY <1>1, FS_EmptySet
<1>2. CASE T # {}
  <2>1. PICK x : x \in T
    BY <1>2, Zenon
  <2>2. T = {x} /\ Cardinality({x}) = 1
    BY <2>1, FS_Singleton, Zenon
  <2> QED
    BY <2>2
<1> QED
  BY <1>1, <1>2, Zenon

BfdValues == BfdStates \cup {Down}
BfdSlot == [id : BfdIds \cup {Nothing}, used : BOOLEAN, state : BfdValues]

BfdOK ==
  /\ bfd \in [1..BfdMax -> BfdSlot]
  /\ bfdTold \in [BfdIds -> BfdValues]
  /\ \A i \in 1..BfdMax : bfd[i].used => bfd[i].id \in BfdIds
  /\ \A i, j \in 1..BfdMax : bfd[i].used /\ bfd[j].used /\ bfd[i].id = bfd[j].id => i = j
  /\ ListenerKnows

\* A BFD slot that is freed is a BFD slot.
LEMMA BfdSlotFreed ==
  ASSUME NEW r \in BfdSlot
  PROVE  [r EXCEPT !.used = FALSE] \in BfdSlot
BY Zenon DEF BfdSlot

\* danos_bfd_create and the other BFD calls keep the table.
LEMMA StepBfd ==
  ASSUME BfdOK, BfdNext
  PROVE  BfdOK'
<1> USE DEF BfdOK, BfdSlot, BfdValues, ListenerKnows
<1>1. CASE danos_bfd_init
  BY <1>1, Zenon DEF danos_bfd_init
<1>2. CASE danos_bfd_register_callback
  <2>1. \A i \in 1..BfdMax : bfd[i].used => BfdSlots(bfd[i].id) = {i}
    BY Zenon DEF BfdSlots
  <2>2. \A i \in 1..BfdMax : First({i}) = i
    BY DEF First
  <2>3. \A i \in 1..BfdMax : bfd[i].used => bfdTold'[bfd[i].id] = bfd[i].state
    BY <1>2, <2>1, <2>2, Zenon DEF danos_bfd_register_callback
  <2>4. bfdTold' \in [BfdIds -> BfdValues]
    <3>1. ASSUME NEW b \in BfdIds, BfdSlots(b) # {}
          PROVE  bfd[First(BfdSlots(b))].state \in BfdValues
      <4>1. BfdSlots(b) \in SUBSET Nat /\ BfdSlots(b) \subseteq 1..BfdMax
        BY DEF BfdSlots
      <4> QED
        BY <3>1, <4>1, FirstFound, Zenon
    <3> QED
      BY <1>2, <3>1, Zenon DEF danos_bfd_register_callback
  <2> QED
    BY <1>2, <2>3, <2>4, Zenon DEF danos_bfd_register_callback
<1>3. ASSUME NEW b \in BfdIds, danos_bfd_create(b)
      PROVE  BfdOK'
  <2> DEFINE free == {i \in 1..BfdMax : ~bfd[i].used}
             f == First(free)
  <2>1. f \in 1..BfdMax /\ ~bfd[f].used
    <3>1. free \in SUBSET Nat /\ free # {}
      BY <1>3 DEF danos_bfd_create
    <3> QED
      BY <3>1, FirstFound, Zenon
  <2>2. bfd' = [bfd EXCEPT ![f] = NewEntry(b)]
    BY <1>3, Zenon DEF danos_bfd_create
  <2>3. \A i \in 1..BfdMax : bfd[i].used => bfd[i].id # b
    BY <1>3, Zenon DEF danos_bfd_create, BfdSlots
  <2>4. bfdTold' = [bfdTold EXCEPT ![b] = Down] /\ (listening' => listening)
    BY <1>3, Zenon DEF danos_bfd_create
  <2>5. NewEntry(b) \in BfdSlot /\ NewEntry(b).used /\ NewEntry(b).id = b /\ NewEntry(b).state = Down
    BY Zenon DEF NewEntry
  <2> HIDE DEF free, f
  <2>6. bfd' \in [1..BfdMax -> BfdSlot] /\ bfdTold' \in [BfdIds -> BfdValues]
    BY <2>1, <2>2, <2>4, <2>5, Zenon
  <2>7. /\ bfd'[f].used /\ bfd'[f].id = b /\ bfd'[f].state = Down
        /\ \A i \in 1..BfdMax : i # f => bfd'[i] = bfd[i]
    BY <2>1, <2>2, <2>5, Zenon
  <2>8. \A i \in 1..BfdMax : bfd'[i].used => bfd'[i].id \in BfdIds
    BY <2>7, Zenon
  <2>9. \A i, j \in 1..BfdMax : bfd'[i].used /\ bfd'[j].used /\ bfd'[i].id = bfd'[j].id => i = j
    BY <2>3, <2>7, Zenon
  <2>10. listening' => \A i \in 1..BfdMax : bfd'[i].used => bfdTold'[bfd'[i].id] = bfd'[i].state
    <3>1. bfdTold'[b] = Down /\ \A d \in BfdIds : d # b => bfdTold'[d] = bfdTold[d]
      BY <2>4, Zenon
    <3>2. SUFFICES ASSUME listening', NEW i \in 1..BfdMax, bfd'[i].used
                   PROVE  bfdTold'[bfd'[i].id] = bfd'[i].state
      BY Zenon
    <3>3. CASE i = f
      BY <2>7, <3>1, <3>3, Zenon
    <3>4. CASE i # f
      <4>1. bfd'[i] = bfd[i] /\ bfd[i].used
        BY <2>7, <3>2, <3>4, Zenon
      <4>2. bfdTold[bfd[i].id] = bfd[i].state /\ bfd[i].id \in BfdIds /\ bfd[i].id # b
        BY <2>3, <2>4, <3>2, <4>1, Zenon
      <4> QED
        BY <3>1, <4>1, <4>2, Zenon
    <3> QED
      BY <3>3, <3>4, Zenon
  <2> QED
    BY <2>6, <2>8, <2>9, <2>10, Zenon
<1>4. ASSUME NEW b \in BfdIds, danos_bfd_delete(b)
      PROVE  BfdOK'
  <2>1. BfdSlots(b) \in SUBSET Nat /\ BfdSlots(b) # {} /\ BfdSlots(b) \subseteq 1..BfdMax
    BY <1>4 DEF danos_bfd_delete, BfdSlots
  <2> DEFINE f == First(BfdSlots(b))
  <2>2. f \in 1..BfdMax
    BY <2>1, FirstFound, Zenon
  <2>3. bfd' = [bfd EXCEPT ![f].used = FALSE] /\ UNCHANGED <<listening, bfdTold>>
    BY <1>4, Zenon DEF danos_bfd_delete
  <2> HIDE DEF f
  <2>4. \A i \in 1..BfdMax : bfd'[i].id = bfd[i].id /\ bfd'[i].state = bfd[i].state
                             /\ (bfd'[i].used => bfd[i].used)
    <3>1. \A i \in 1..BfdMax : bfd'[i] = IF i = f THEN [bfd[f] EXCEPT !.used = FALSE] ELSE bfd[i]
      BY <2>2, <2>3, Zenon
    <3>2. bfd'[f].used = FALSE /\ bfd'[f].id = bfd[f].id /\ bfd'[f].state = bfd[f].state
      BY <2>2, <3>1, Zenon
    <3> QED
      BY <3>1, <3>2, Zenon
  <2>5. bfd' \in [1..BfdMax -> BfdSlot]
    <3>1. [bfd[f] EXCEPT !.used = FALSE] \in BfdSlot
      BY <2>2, BfdSlotFreed, Zenon
    <3>2. bfd' = [bfd EXCEPT ![f] = [bfd[f] EXCEPT !.used = FALSE]]
      BY <2>2, <2>3, Zenon
    <3> HIDE DEF BfdSlot
    <3> QED
      BY <2>2, <3>1, <3>2, Zenon
  <2> QED
    BY <2>3, <2>4, <2>5
<1>5. ASSUME NEW b \in BfdIds, NEW s \in BfdStates, danos_bfd_set_state(b, s)
      PROVE  BfdOK'
  <2> DEFINE f == First(BfdSlots(b))
  <2>1. BfdSlots(b) \in SUBSET Nat /\ BfdSlots(b) # {}
    BY <1>5 DEF danos_bfd_set_state, BfdSlots
  <2>2. f \in BfdSlots(b)
    BY <2>1, FirstFound, Zenon
  <2>3. f \in 1..BfdMax /\ bfd[f].used /\ bfd[f].id = b
    BY <2>2, Zenon DEF BfdSlots
  <2>4. bfd' = [bfd EXCEPT ![f].state = s] /\ listening' = listening
        /\ bfdTold' = IF listening THEN [bfdTold EXCEPT ![b] = s] ELSE bfdTold
    BY <1>5, Zenon DEF danos_bfd_set_state
  <2> HIDE DEF f
  <2> QED
    BY <2>3, <2>4
<1>6. ASSUME NEW b \in BfdIds, danos_bfd_update(b)
      PROVE  BfdOK'
  BY <1>6, Zenon DEF danos_bfd_update, tableVars, bfdVars
<1> QED
  BY <1>1, <1>2, <1>3, <1>4, <1>5, <1>6, Zenon DEF BfdNext

VrrpOK ==
  /\ vrrp \in [1..VrrpMax -> VrrpKeys \cup {Nothing}]
  /\ \A i, j \in 1..VrrpMax : vrrp[i] = vrrp[j] /\ vrrp[i] # Nothing => i = j

\* The VRRP group's operations keep the table.
LEMMA StepVrrp ==
  ASSUME VrrpOK, VrrpNext
  PROVE  VrrpOK'
<1> USE DEF VrrpOK
<1>1. \A k : VrrpSlots(k) \in SUBSET Nat
  BY DEF VrrpSlots
<1>2. PICK k \in VrrpKeys : danos_vrrp_create(k) \/ danos_vrrp_update(k) \/ danos_vrrp_delete(k)
  BY Zenon DEF VrrpNext
<1>3. CASE danos_vrrp_create(k)
  <2>1. First(VrrpSlots(Nothing)) \in VrrpSlots(Nothing)
    BY <1>1, <1>3, FirstFound, Zenon DEF danos_vrrp_create
  <2> QED
    BY <1>3, <2>1, Zenon DEF danos_vrrp_create, VrrpSlots
<1>4. CASE danos_vrrp_update(k)
  BY <1>4, Zenon DEF danos_vrrp_update, tableVars
<1>5. CASE danos_vrrp_delete(k)
  <2>1. First(VrrpSlots(k)) \in VrrpSlots(k)
    BY <1>1, <1>5, FirstFound, Zenon DEF danos_vrrp_delete
  <2> QED
    BY <1>5, <2>1, Zenon DEF danos_vrrp_delete, VrrpSlots
<1> QED
  BY <1>2, <1>3, <1>4, <1>5, Zenon

BackendSlot == [name : Backends, used : BOOLEAN]

BackendsOK ==
  /\ backends \in Seq(BackendSlot)
  /\ \A i, j \in DOMAIN backends :
       backends[i].used /\ backends[j].used /\ backends[i].name = backends[j].name => i = j

\* A backend's slot that is freed is such a slot.
LEMMA BackendSlotFreed ==
  ASSUME NEW r \in BackendSlot
  PROVE  [r EXCEPT !.used = FALSE] \in BackendSlot
BY Zenon DEF BackendSlot

\* Registering and removing a backend keeps the table.
LEMMA StepBackends ==
  ASSUME BackendsOK, BackendNext
  PROVE  BackendsOK'
<1> USE DEF BackendsOK, BackendSlot
<1>1. ASSUME NEW n \in Backends, danos_backend_register(n)
      PROVE  BackendsOK'
  <2> DEFINE e == [name |-> n, used |-> TRUE]
  <2>1. e \in BackendSlot /\ e.name = n /\ backends' = Append(backends, e)
    BY <1>1, Zenon DEF danos_backend_register
  <2>2. \A i \in DOMAIN backends : backends[i].used => backends[i].name # n
    BY <1>1, Zenon DEF danos_backend_register, Known, Registered
  <2> HIDE DEF e
  <2>3. /\ backends' \in Seq(BackendSlot) /\ Len(backends) \in Nat
        /\ DOMAIN backends = 1..Len(backends) /\ DOMAIN backends' = 1..(Len(backends) + 1)
        /\ \A i \in DOMAIN backends : backends'[i] = backends[i]
        /\ backends'[Len(backends) + 1] = e
    BY <2>1, AppendProperties
  <2> QED
    BY <2>1, <2>2, <2>3
<1>2. ASSUME NEW n \in Backends, danos_backend_unregister(n)
      PROVE  BackendsOK'
  <2>1. Registered(n) \in SUBSET Nat /\ Registered(n) # {} /\ Registered(n) \subseteq DOMAIN backends
    BY <1>2 DEF danos_backend_unregister, Registered
  <2> DEFINE f == First(Registered(n))
  <2>2. f \in DOMAIN backends
    BY <2>1, FirstFound, Zenon
  <2>3. backends' = [backends EXCEPT ![f].used = FALSE]
    BY <1>2, Zenon DEF danos_backend_unregister
  <2> HIDE DEF f
  <2>4. /\ DOMAIN backends' = DOMAIN backends
        /\ \A i \in DOMAIN backends : backends'[i].name = backends[i].name
                                      /\ (backends'[i].used => backends[i].used)
    BY <2>2, <2>3
  <2>5. backends' \in Seq(BackendSlot)
    <3>1. backends' = [backends EXCEPT ![f] = [backends[f] EXCEPT !.used = FALSE]]
      BY <2>2, <2>3, Zenon
    <3>2. f \in 1..Len(backends)
      BY <2>2
    <3> HIDE DEF BackendSlot
    <3>3. backends[f] \in BackendSlot
      BY <3>2
    <3>4. [backends[f] EXCEPT !.used = FALSE] \in BackendSlot
      BY <3>3, BackendSlotFreed, Zenon
    <3> QED
      BY <3>1, <3>2, <3>4, ExceptSeq, Zenon
  <2> QED
    BY <2>4, <2>5, Zenon
<1>3. CASE danos_backend_reset
  <2>1. << >> \in Seq(BackendSlot) /\ backends' = << >> /\ DOMAIN backends' = {}
    BY <1>3 DEF danos_backend_reset
  <2> QED
    BY <2>1, Zenon
<1> QED
  BY <1>1, <1>2, <1>3, Zenon DEF BackendNext

\* The slot of the entry that is c younger ones old.
Slot(c) == IF ringHead - 1 - c >= 0 THEN ringHead - 1 - c ELSE ringHead - 1 - c + AuditMax

AuditOK ==
  /\ audits \in Seq(Nat)
  /\ \A i \in 1..Len(audits) : audits[i] = i
  /\ DOMAIN ring = 0..(AuditMax - 1)
  /\ ringHead \in 0..(AuditMax - 1)
  /\ ringCount \in 0..AuditMax /\ ringCount <= Len(audits)
  /\ ringCount < AuditMax => ringHead = ringCount
  /\ \A c \in 0..(ringCount - 1) : ring[Slot(c)] = Len(audits) - c

\* An index one round past the ring wraps once.
LEMMA WrapOnce ==
  ASSUME NEW q \in Nat \ {0}, NEW a \in 0..(2 * q - 1)
  PROVE  a % q = IF a < q THEN a ELSE a - q
OBVIOUS

\* An audit record takes the place of the oldest and keeps the ring.
LEMMA StepAudit ==
  ASSUME AuditOK, AuditNext
  PROVE  AuditOK'
<1> USE TablesAssumption DEF AuditOK
<1>1. CASE danos_audit_init
  <2>1. /\ audits' = << >> /\ << >> \in Seq(Nat) /\ Len(<< >>) = 0
        /\ ringHead' = 0 /\ ringCount' = 0 /\ ring' = ring
    BY <1>1 DEF danos_audit_init
  <2> QED
    BY <2>1
<1>2. CASE danos_audit_close
  BY <1>2, Zenon DEF danos_audit_close, Slot
<1>3. CASE danos_audit_log
  <2> DEFINE n == Len(audits)
  <2>1. /\ ring' = [ring EXCEPT ![ringHead] = n + 1]
        /\ ringHead' = (ringHead + 1) % AuditMax
        /\ ringCount' = IF ringCount < AuditMax THEN ringCount + 1 ELSE ringCount
        /\ audits' = Append(audits, n + 1)
    BY <1>3, Zenon DEF danos_audit_log
  <2>2. n \in Nat
    OBVIOUS
  <2>3. /\ audits' \in Seq(Nat) /\ Len(audits') = n + 1
        /\ \A i \in 1..(n + 1) : audits'[i] = i
    BY <2>1, <2>2, AppendProperties
  <2>4. ringHead' = IF ringHead + 1 = AuditMax THEN 0 ELSE ringHead + 1
    <3> DEFINE a == ringHead + 1
    <3>1. a \in 0..(2 * AuditMax - 1) /\ a \in Int /\ a <= AuditMax
      OBVIOUS
    <3>2. ringHead' = a % AuditMax
      BY <2>1, Zenon
    <3> HIDE DEF a
    <3>3. a % AuditMax = IF a < AuditMax THEN a ELSE a - AuditMax
      BY <3>1, WrapOnce, Zenon
    <3>4. a % AuditMax = IF a = AuditMax THEN 0 ELSE a
      BY <3>1, <3>3
    <3> QED
      BY <3>2, <3>4, Zenon DEF a
  <2> HIDE DEF n
  <2>5. /\ DOMAIN ring' = 0..(AuditMax - 1) /\ ring'[ringHead] = n + 1
        /\ \A j \in 0..(AuditMax - 1) : j # ringHead => ring'[j] = ring[j]
    BY <2>1, Zenon
  <2>6. ASSUME NEW c \in 0..(ringCount' - 1)
        PROVE  ring'[Slot(c)'] = (n + 1) - c
    <3>1. CASE c = 0
      <4>1. Slot(c)' = ringHead
        BY <2>4, <3>1 DEF Slot
      <4> QED
        BY <2>2, <2>5, <3>1, <4>1
    <3>2. CASE c # 0
      <4>1. c - 1 \in 0..(ringCount - 1) /\ c - 1 \in 0..(AuditMax - 2) /\ c \in Nat
        BY <2>1, <3>2
      <4>2. Slot(c)' = Slot(c - 1) /\ Slot(c - 1) \in 0..(AuditMax - 1) /\ Slot(c - 1) # ringHead
        BY <2>4, <4>1 DEF Slot
      <4>3. ring[Slot(c - 1)] = n - (c - 1)
        BY <4>1, Zenon DEF n
      <4> QED
        BY <2>2, <2>5, <4>1, <4>2, <4>3
    <3> QED
      BY <3>1, <3>2, Zenon
  <2>7. /\ ringHead' \in 0..(AuditMax - 1)
        /\ ringCount' \in 0..AuditMax /\ ringCount' <= n + 1
        /\ ringCount' < AuditMax => ringHead' = ringCount'
    <3>1. ringCount' \in 0..AuditMax
      BY <2>1
    <3>2. ringCount' <= n + 1
      BY <2>1, <2>2 DEF n
    <3>3. ringHead' \in 0..(AuditMax - 1)
      BY <2>4
    <3>4. ringCount' < AuditMax => ringHead' = ringCount'
      BY <2>1, <2>4
    <3> QED
      BY <3>1, <3>2, <3>3, <3>4, Zenon
  <2> QED
    BY <2>3, <2>5, <2>6, <2>7, Zenon
<1> QED
  BY <1>1, <1>2, <1>3, Zenon DEF AuditNext

\* The last k elements of a sequence.
LEMMA LastOnes ==
  ASSUME NEW s \in Seq(Nat), NEW k \in Nat, k <= Len(s)
  PROVE  SubSeq(s, Len(s) - k + 1, Len(s)) = [i \in 1..k |-> s[Len(s) - k + i]]
<1> DEFINE n == Len(s)
           m == n - k + 1
<1>1. n \in Nat /\ m \in 1..(n + 1) /\ n - m + 1 = k
  OBVIOUS
<1>2. \A i \in 1..k : m + i - 1 = n - k + i
  OBVIOUS
<1>3. SubSeq(s, m, n) = [i \in 1..(n - m + 1) |-> s[m + i - 1]]
  <2> HIDE DEF m, n
  <2> QED
    BY <1>1
<1> QED
  BY <1>1, <1>2, <1>3, Zenon

\* The ring gives AuditNewest: a query returns the newest records, newest first.
LEMMA QueryNewest ==
  ASSUME AuditOK
  PROVE  AuditNewest
<1> DEFINE n == Len(audits)
           newest == SubSeq(audits, n - ringCount + 1, n)
<1>1. /\ n \in Nat /\ ringCount \in Nat /\ AuditMax \in Nat \ {0} /\ audits \in Seq(Nat)
      /\ ringHead \in 0..(AuditMax - 1) /\ ringCount \in 0..AuditMax /\ ringCount <= n
      /\ ringCount < AuditMax => ringHead = ringCount
  BY TablesAssumption DEF AuditOK
<1>2. newest = [i \in 1..ringCount |-> audits[n - ringCount + i]]
  BY <1>1, LastOnes, Zenon
<1> HIDE DEF newest
<1>3. ASSUME NEW i \in 1..ringCount
      PROVE  ring[(Oldest + i - 1) % AuditMax] = n - ringCount + i
  <2>1. Oldest + i - 1 \in 0..(2 * AuditMax - 1) /\ Oldest \in Int
    BY <1>1 DEF Oldest
  <2>2. (Oldest + i - 1) % AuditMax = IF Oldest + i - 1 < AuditMax THEN Oldest + i - 1
                                      ELSE Oldest + i - 1 - AuditMax
    <3> DEFINE a == Oldest + i - 1
    <3>1. a \in 0..(2 * AuditMax - 1)
      BY <2>1, Zenon
    <3> HIDE DEF a
    <3>2. a % AuditMax = IF a < AuditMax THEN a ELSE a - AuditMax
      BY <1>1, <3>1, WrapOnce, Zenon
    <3> QED
      BY <1>1, <2>1, <3>2 DEF a
  <2>3. ringCount - i \in 0..(ringCount - 1)
    BY <1>1
  <2>4. (Oldest + i - 1) % AuditMax = Slot(ringCount - i)
    BY <1>1, <2>2 DEF Oldest, Slot
  <2>5. ring[Slot(ringCount - i)] = n - (ringCount - i)
    BY <2>3, Zenon DEF AuditOK
  <2> QED
    BY <1>1, <2>4, <2>5
<1>4. \A i \in 1..ringCount : audits[n - ringCount + i] = n - ringCount + i
  BY <1>1 DEF AuditOK
<1>5. danos_audit_query = [i \in 1..ringCount |-> n - ringCount + i]
  BY <1>3, Zenon DEF danos_audit_query
<1>6. newest = [i \in 1..ringCount |-> n - ringCount + i]
  BY <1>2, <1>4, Zenon
<1> QED
  BY <1>5, <1>6, Zenon DEF AuditNewest, newest

TablesInv == BfdOK /\ VrrpOK /\ BackendsOK /\ AuditOK

\* For tables of any size and any sequence of calls: what a BFD listener knows is current,
\* no key is in a table twice, a capability query names a registered backend, and an audit
\* query returns the newest entries in order (bfd.c, vrrp.c, dpa_version.c, audit.c).
THEOREM TablesAreExact == TablesSpec => []TablesExact
<1>1. TablesInit => TablesInv
  <2> SUFFICES ASSUME TablesInit PROVE TablesInv
    BY Zenon
  <2> USE TablesAssumption DEF TablesInit
  <2>1. BfdOK
    BY Zenon DEF BfdOK, BfdSlot, BfdValues, ListenerKnows
  <2>2. VrrpOK
    BY Zenon DEF VrrpOK
  <2>3. << >> \in Seq(BackendSlot) /\ << >> \in Seq(Nat)
    OBVIOUS
  <2>4. BackendsOK
    BY <2>3 DEF BackendsOK
  <2>5. AuditOK
    BY <2>3 DEF AuditOK
  <2> QED
    BY <2>1, <2>2, <2>4, <2>5, Zenon DEF TablesInv
<1>2. TablesInv /\ [BfdNext \/ VrrpNext \/ BackendNext \/ AuditNext]_tableVars => TablesInv'
  <2> SUFFICES ASSUME TablesInv, [BfdNext \/ VrrpNext \/ BackendNext \/ AuditNext]_tableVars
               PROVE  TablesInv'
    BY Zenon
  <2>1. UNCHANGED bfdVars => BfdOK'
    BY DEF TablesInv, bfdVars, BfdOK, ListenerKnows
  <2>2. UNCHANGED vrrp => VrrpOK'
    BY Zenon DEF TablesInv, VrrpOK
  <2>3. UNCHANGED backends => BackendsOK'
    BY Zenon DEF TablesInv, BackendsOK
  <2>4. UNCHANGED auditVars => AuditOK'
    BY Zenon DEF TablesInv, auditVars, AuditOK, Slot
  <2>5. CASE BfdNext
    <3>1. UNCHANGED <<vrrp, backends, auditVars>>
      BY <2>5, Zenon DEF BfdNext, danos_bfd_init, danos_bfd_register_callback, danos_bfd_create,
           danos_bfd_update, danos_bfd_delete, danos_bfd_set_state, OtherTables, tableVars
    <3> QED
      BY <2>2, <2>3, <2>4, <2>5, <3>1, StepBfd, Zenon DEF TablesInv
  <2>6. CASE VrrpNext
    <3>1. UNCHANGED <<bfdVars, backends, auditVars>>
      BY <2>6, Zenon DEF VrrpNext, danos_vrrp_create, danos_vrrp_update, danos_vrrp_delete, tableVars
    <3> QED
      BY <2>1, <2>3, <2>4, <2>6, <3>1, StepVrrp, Zenon DEF TablesInv
  <2>7. CASE BackendNext
    <3>1. UNCHANGED <<bfdVars, vrrp, auditVars>>
      BY <2>7, Zenon DEF BackendNext, danos_backend_register, danos_backend_unregister, danos_backend_reset
    <3> QED
      BY <2>1, <2>2, <2>4, <2>7, <3>1, StepBackends, Zenon DEF TablesInv
  <2>8. CASE AuditNext
    <3>1. UNCHANGED <<bfdVars, vrrp, backends>>
      BY <2>8, Zenon DEF AuditNext, danos_audit_init, danos_audit_close, danos_audit_log
    <3> QED
      BY <2>1, <2>2, <2>3, <2>8, <3>1, StepAudit, Zenon DEF TablesInv
  <2>9. CASE UNCHANGED tableVars
    BY <2>1, <2>2, <2>3, <2>4, <2>9, Zenon DEF tableVars, TablesInv
  <2> QED
    BY <2>5, <2>6, <2>7, <2>8, <2>9, Zenon
<1>3. TablesInv => TablesExact
  <2> SUFFICES ASSUME TablesInv PROVE TablesExact
    BY Zenon
  <2>1. \A b \in BfdIds : Cardinality(BfdSlots(b)) <= 1
    BY AtMostOne, Zenon DEF TablesInv, BfdOK, BfdSlots
  <2>2. \A k \in VrrpKeys : Cardinality(VrrpSlots(k)) <= 1
    BY TablesAssumption, AtMostOne, Zenon DEF TablesInv, VrrpOK, VrrpSlots
  <2>3. \A n \in Backends : Cardinality(Registered(n)) <= 1
    BY AtMostOne, Zenon DEF TablesInv, BackendsOK, Registered
  <2>4. \A n \in Backends : danos_capability_query(n) \subseteq Registered(n)
    BY DEF TablesInv, BackendsOK, danos_capability_query, Registered, get_info
  <2>5. ListenerKnows /\ AuditNewest
    BY QueryNewest, Zenon DEF TablesInv, BfdOK
  <2> QED
    BY <2>1, <2>2, <2>3, <2>4, <2>5, Zenon DEF TablesExact, KeysUnique
<1> QED
  BY <1>1, <1>2, <1>3, PTL DEF TablesSpec

-----------------------------------------------------------------------------
(* Repairs. *)

FlapEntry == [count : Nat, start : Nat, flapping : BOOLEAN]

\* The repairs allowed to one object, a[1] to a[n]: in order of time, none after t;
\* 2 * MaxRepairs - 1 places apart they are more than a window apart; the c counted in the
\* present window are the last ones, from its start s on; and what is MaxRepairs places
\* before its start is more than a window before it, since the window before began there
\* or later.
InOrder(a, n, t) ==
  /\ \A i \in 1..n : a[i] \in Nat /\ a[i] <= t
  /\ \A i, j \in 1..n : i <= j => a[i] <= a[j]

Gaps(a, n) == \A i, j \in 1..n : j >= i + (2 * MaxRepairs - 1) => a[j] > a[i] + Window

Began(a, n, c, s) ==
  /\ c <= MaxRepairs /\ c <= n
  /\ c = 0 => n = 0
  /\ c > 0 => a[n - c + 1] = s
  /\ c > 0 => \A i \in 1..(n - c + 1 - MaxRepairs) : a[i] + Window < s

Spaced(a, e) ==
  /\ a \in Seq(Nat) /\ InOrder(a, Len(a), now) /\ Gaps(a, Len(a))
  /\ ~e.flapping => Began(a, Len(a), e.count, e.start)

FlapOK ==
  /\ now \in Nat
  /\ DOMAIN entry \subseteq Keys /\ DOMAIN allowed = Keys
  /\ allowed = [k \in Keys |-> allowed[k]]
  /\ \A k \in DOMAIN entry : entry[k] \in FlapEntry /\ Spaced(allowed[k], entry[k])
  /\ \A k \in Keys \ DOMAIN entry : allowed[k] = << >>

\* An object without repairs has a blank flap entry.
LEMMA FreshSpaced ==
  ASSUME now \in Nat
  PROVE  Fresh \in FlapEntry /\ Spaced(<< >>, Fresh) /\ Fresh.flapping = FALSE
<1>1. << >> \in Seq(Nat) /\ Len(<< >>) = 0
  OBVIOUS
<1> QED
  BY <1>1, RetryAssumption DEF Fresh, FlapEntry, Spaced, InOrder, Gaps, Began

\* Times that are in order and spaced stay so when t is appended (b), be it the first
\* of a new window or one more of the present one.
LEMMA SpacedCore ==
  ASSUME NEW n \in Nat, NEW t \in Nat, NEW a, NEW b, NEW s \in Nat, NEW c \in Nat,
         b[n + 1] = t, \A i \in 1..n : b[i] = a[i],
         InOrder(a, n, t), Gaps(a, n), Began(a, n, c, s)
  PROVE  /\ InOrder(b, n + 1, t)
         /\ c = 0 \/ t - s > Window => Gaps(b, n + 1) /\ Began(b, n + 1, 1, t)
         /\ ~(c = 0 \/ t - s > Window) /\ c + 1 <= MaxRepairs =>
              Gaps(b, n + 1) /\ Began(b, n + 1, c + 1, s)
<1> USE RetryAssumption
<1>1. InOrder(b, n + 1, t)
  BY DEF InOrder
<1>2. ASSUME \A i \in 1..n : n + 1 >= i + (2 * MaxRepairs - 1) => t > b[i] + Window
      PROVE  Gaps(b, n + 1)
  <2> SUFFICES ASSUME NEW i \in 1..(n + 1), NEW j \in 1..(n + 1), j >= i + (2 * MaxRepairs - 1)
               PROVE  b[j] > b[i] + Window
    BY Zenon DEF Gaps
  <2>1. i \in 1..n
    OBVIOUS
  <2>2. CASE j \in 1..n
    BY <2>1, <2>2, Zenon DEF Gaps
  <2>3. CASE j = n + 1
    BY <1>2, <2>1, <2>3, Zenon
  <2> QED
    BY <2>2, <2>3
<1>3. CASE c = 0 \/ t - s > Window
  <2>1. ASSUME NEW i \in 1..(n + 1 - MaxRepairs)
        PROVE  b[i] + Window < t
    <3>1. c > 0 /\ i \in 1..n /\ n - c + 1 \in 1..n /\ i <= n - c + 1
      BY DEF Began
    <3>2. a[i] <= s /\ a[i] \in Nat
      BY <3>1, Zenon DEF InOrder, Began
    <3> QED
      BY <1>3, <3>1, <3>2
  <2>2. Gaps(b, n + 1)
    <3> SUFFICES ASSUME NEW i \in 1..n, n + 1 >= i + (2 * MaxRepairs - 1)
                 PROVE  t > b[i] + Window
      BY <1>2, Zenon
    <3>1. i \in 1..(n + 1 - MaxRepairs) /\ b[i] \in Nat
      BY <1>1 DEF InOrder
    <3> QED
      BY <2>1, <3>1, Zenon
  <2>3. Began(b, n + 1, 1, t)
    <3>1. (n + 1) - 1 + 1 = n + 1
      OBVIOUS
    <3> QED
      BY <2>1, <3>1 DEF Began
  <2> QED
    BY <1>1, <1>3, <2>2, <2>3, Zenon
<1>4. CASE ~(c = 0 \/ t - s > Window) /\ c + 1 <= MaxRepairs
  <2>1. n - c + 1 \in 1..n /\ b[n - c + 1] = s /\ s <= t
    BY <1>4 DEF Began, InOrder
  <2>2. ASSUME NEW i \in 1..(n - c + 1 - MaxRepairs)
        PROVE  b[i] + Window < s
    <3>1. i \in 1..n
      OBVIOUS
    <3> QED
      BY <1>4, <3>1 DEF Began
  <2>3. Gaps(b, n + 1)
    <3> SUFFICES ASSUME NEW i \in 1..n, n + 1 >= i + (2 * MaxRepairs - 1)
                 PROVE  t > b[i] + Window
      BY <1>2, Zenon
    <3>1. i \in 1..(n - c + 1 - MaxRepairs) /\ b[i] \in Nat
      BY <1>1, <1>4 DEF InOrder
    <3> QED
      BY <2>1, <2>2, <3>1
  <2>4. Began(b, n + 1, c + 1, s)
    <3>1. (n + 1) - (c + 1) + 1 = n - c + 1
      OBVIOUS
    <3> QED
      BY <1>4, <2>1, <2>2, <3>1 DEF Began
  <2> QED
    BY <1>1, <1>4, <2>3, <2>4, Zenon
<1> QED
  BY <1>1, <1>3, <1>4, Zenon

\* What recording a repair makes of an entry.
LEMMA CountedIs ==
  ASSUME now \in Nat, NEW e \in FlapEntry
  PROVE  /\ Counted(e) \in FlapEntry /\ Counted(e).flapping = e.flapping
         /\ e.count = 0 \/ now - e.start > Window =>
              Counted(e).count = 1 /\ Counted(e).start = now
         /\ ~(e.count = 0 \/ now - e.start > Window) =>
              Counted(e).count = e.count + 1 /\ Counted(e).start = e.start
<1>1. CASE e.count = 0 \/ now - e.start > Window
  <2>1. Counted(e) = [[e EXCEPT !.start = now] EXCEPT !.count = 1]
    BY <1>1, Zenon DEF Counted
  <2>2. [e EXCEPT !.start = now] = [count |-> e.count, start |-> now, flapping |-> e.flapping]
    BY DEF FlapEntry
  <2>3. Counted(e) = [count |-> 1, start |-> now, flapping |-> e.flapping]
    BY <2>1, <2>2, Zenon
  <2> QED
    BY <1>1, <2>3 DEF FlapEntry
<1>2. CASE ~(e.count = 0 \/ now - e.start > Window)
  <2>1. Counted(e) = [count |-> e.count + 1, start |-> e.start, flapping |-> e.flapping]
    BY <1>2, Zenon DEF Counted, FlapEntry
  <2> QED
    BY <1>2, <2>1 DEF FlapEntry
<1> QED
  BY <1>1, <1>2, Zenon

\* A time added to the times of an object's repairs.
LEMMA OneMoreTime ==
  ASSUME NEW a \in Seq(Nat), NEW x \in Nat
  PROVE  /\ Len(a) \in Nat /\ Append(a, x) \in Seq(Nat) /\ Len(Append(a, x)) = Len(a) + 1
         /\ \A i \in 1..Len(a) : Append(a, x)[i] = a[i]
         /\ Append(a, x)[Len(a) + 1] = x
BY AppendProperties

\* One more repair is recorded, in the present window or as the first of a new one.
LEMMA OneMoreSpaced ==
  ASSUME now \in Nat, NEW a, NEW e \in FlapEntry, Spaced(a, e), ~e.flapping,
         NEW c \in FlapEntry, c.count = Counted(e).count, c.start = Counted(e).start,
         c.count <= MaxRepairs
  PROVE  Spaced(Append(a, now), c)
<1> DEFINE n == Len(a)
           b == Append(a, now)
<1>1. n \in Nat /\ a \in Seq(Nat)
  <2>1. a \in Seq(Nat)
    BY Zenon DEF Spaced
  <2> QED
    BY <2>1, OneMoreTime, Zenon
<1>2. /\ b \in Seq(Nat) /\ Len(b) = n + 1 /\ b[n + 1] = now
      /\ \A i \in 1..n : b[i] = a[i]
  <2>1. /\ Append(a, now) \in Seq(Nat) /\ Len(Append(a, now)) = Len(a) + 1
        /\ \A i \in 1..Len(a) : Append(a, now)[i] = a[i]
        /\ Append(a, now)[Len(a) + 1] = now
    BY <1>1, OneMoreTime, Zenon
  <2> QED
    BY <2>1, Zenon
<1>3. e.count \in Nat /\ e.start \in Nat /\ c.count \in Nat
  BY Zenon DEF FlapEntry
<1>4. InOrder(a, n, now) /\ Gaps(a, n) /\ Began(a, n, e.count, e.start)
  BY Zenon DEF Spaced
<1> HIDE DEF n, b
<1> DEFINE first == e.count = 0 \/ now - e.start > Window
<1>5. /\ InOrder(b, n + 1, now)
      /\ first => Gaps(b, n + 1) /\ Began(b, n + 1, 1, now)
      /\ ~first /\ e.count + 1 <= MaxRepairs =>
           Gaps(b, n + 1) /\ Began(b, n + 1, e.count + 1, e.start)
  BY <1>1, <1>2, <1>3, <1>4, SpacedCore, Zenon
<1>6. /\ first => c.count = 1 /\ c.start = now
      /\ ~first => c.count = e.count + 1 /\ c.start = e.start
  BY CountedIs, Zenon
<1> HIDE DEF first
<1>7. Gaps(b, n + 1) /\ Began(b, n + 1, c.count, c.start)
  BY <1>5, <1>6, Zenon
<1> QED
  BY <1>2, <1>5, <1>7, Zenon DEF Spaced, b

\* Time passing leaves what is spaced spaced.
LEMMA LaterSpaced ==
  ASSUME now \in Nat, now' = now + 1, NEW a, NEW e, Spaced(a, e)
  PROVE  Spaced(a, e)'
BY DEF Spaced, InOrder, Gaps, Began

\* The verdict on an entry is recorded in it.
LEMMA Judged ==
  ASSUME NEW c \in FlapEntry, NEW v \in BOOLEAN
  PROVE  /\ [c EXCEPT !.flapping = v] \in FlapEntry
         /\ [c EXCEPT !.flapping = v].flapping = v
         /\ [c EXCEPT !.flapping = v].count = c.count
         /\ [c EXCEPT !.flapping = v].start = c.start
BY Zenon DEF FlapEntry

\* Each operation keeps FlapOK.
LEMMA StepFlap ==
  ASSUME FlapOK, [FlapNext \/ SupNext]_retryVars
  PROVE  FlapOK'
<1> USE DEF FlapOK
<1>1. ASSUME NEW k \in Keys, antiflap_check_and_record(k)
      PROVE  FlapOK'
  <2> DEFINE e == EntryOf(k)
             c == Counted(e)
             over == c.count > MaxRepairs
             f == [c EXCEPT !.flapping = over]
  <2>1. now' = now
    BY <1>1, Zenon DEF antiflap_check_and_record
  <2>2. CASE UNCHANGED <<entry, allowed>>
    <3>1. \A x, y : Spaced(x, y)' <=> Spaced(x, y)
      BY <2>1, Zenon DEF Spaced, InOrder, Gaps, Began
    <3>2. entry' = entry /\ allowed' = allowed
      BY <2>2, Zenon
    <3> QED
      BY <2>1, <3>1, <3>2, Zenon
  <2>3. CASE ~e.flapping /\ Put(k, f)
             /\ allowed' = IF over THEN allowed ELSE [allowed EXCEPT ![k] = Append(@, now)]
    <3>1. e \in FlapEntry /\ Spaced(allowed[k], e)
      BY FreshSpaced, Zenon DEF EntryOf, Tracked
    <3>2. c \in FlapEntry
      BY <3>1, CountedIs, Zenon
    <3>3. f \in FlapEntry /\ f.flapping = over /\ f.count = c.count /\ f.start = c.start
      <4> HIDE DEF c, over
      <4>1. over \in BOOLEAN
        BY DEF over
      <4> QED
        BY <3>2, <4>1, Judged, Zenon
    <3>4. c.count \in Nat /\ MaxRepairs \in Nat
      BY <3>2, RetryAssumption, Zenon DEF FlapEntry
    <3>5. Spaced(allowed'[k], f)
      <4>1. CASE over
        BY <2>3, <3>1, <3>3, <4>1, Zenon DEF Spaced
      <4>2. CASE ~over
        <5>1. f.count <= MaxRepairs
          BY <3>3, <3>4, <4>2
        <5>2. Spaced(Append(allowed[k], now), f)
          BY <2>3, <3>1, <3>3, <5>1, OneMoreSpaced, Zenon
        <5> QED
          BY <2>3, <4>2, <5>2, Zenon
      <4> QED
        BY <4>1, <4>2, Zenon
    <3> HIDE DEF e, c, f, over
    <3>6. DOMAIN allowed' = Keys /\ allowed' = [j \in Keys |-> allowed'[j]]
          /\ \A j \in Keys \ {k} : allowed'[j] = allowed[j]
      BY <2>3, Zenon
    <3>7. /\ DOMAIN entry' = DOMAIN entry \cup {k} /\ entry'[k] = f
          /\ \A j \in DOMAIN entry \ {k} : entry'[j] = entry[j]
      BY <2>3, Zenon DEF Put
    <3>8. ASSUME NEW j \in DOMAIN entry'
          PROVE  entry'[j] \in FlapEntry /\ Spaced(allowed'[j], entry'[j])
      <4>1. CASE j = k
        BY <3>3, <3>5, <3>7, <4>1, Zenon
      <4>2. CASE j # k
        BY <3>6, <3>7, <4>2, Zenon
      <4> QED
        BY <4>1, <4>2, Zenon
    <3>9. ASSUME NEW j \in DOMAIN entry'
          PROVE  Spaced(allowed[j], entry[j])'
      BY <2>1, <3>8, Zenon DEF Spaced, InOrder, Gaps, Began
    <3> QED
      BY <2>1, <3>6, <3>7, <3>8, <3>9, Zenon
  <2> QED
    BY <1>1, <2>2, <2>3, Zenon DEF antiflap_check_and_record
<1>2. ASSUME NEW k \in Keys, antiflap_clear(k)
      PROVE  FlapOK'
  <2>1. /\ now' = now /\ DOMAIN entry' = DOMAIN entry /\ DOMAIN allowed' = Keys
        /\ entry'[k] = Fresh /\ allowed'[k] = << >> /\ k \in DOMAIN entry
        /\ \A j \in DOMAIN entry \ {k} : entry'[j] = entry[j]
        /\ \A j \in Keys \ {k} : allowed'[j] = allowed[j]
        /\ allowed' = [j \in Keys |-> allowed'[j]]
    BY <1>2, Zenon DEF antiflap_clear, Tracked
  <2>2. ASSUME NEW j \in DOMAIN entry'
        PROVE  entry'[j] \in FlapEntry /\ Spaced(allowed'[j], entry'[j])
    <3>1. CASE j = k
      BY <2>1, <3>1, FreshSpaced, Zenon
    <3>2. CASE j # k
      BY <2>1, <3>2, Zenon
    <3> QED
      BY <3>1, <3>2, Zenon
  <2>3. ASSUME NEW j \in DOMAIN entry'
        PROVE  Spaced(allowed[j], entry[j])'
    BY <2>1, <2>2, Zenon DEF Spaced, InOrder, Gaps, Began
  <2> QED
    BY <2>1, <2>2, <2>3, Zenon
<1>3. CASE Pass
  <2>1. now' = now + 1 /\ entry' = entry /\ allowed' = allowed
    BY <1>3, Zenon DEF Pass
  <2>2. ASSUME NEW k \in DOMAIN entry
        PROVE  Spaced(allowed[k], entry[k])'
    <3>1. Spaced(allowed[k], entry[k])
      BY Zenon
    <3> QED
      BY <2>1, <3>1, LaterSpaced, Zenon DEF Spaced, InOrder, Gaps, Began
  <2>3. now' \in Nat
    BY <2>1
  <2>4. ASSUME NEW k \in DOMAIN entry'
        PROVE  entry'[k] \in FlapEntry /\ Spaced(allowed[k], entry[k])'
    BY <2>1, <2>2, Zenon
  <2> QED
    BY <2>1, <2>3, <2>4, Zenon
<1>4. CASE SupNext \/ UNCHANGED retryVars
  <2>1. UNCHANGED flapVars
    BY <1>4, Zenon DEF SupNext, retryVars, danos_sup_register, danos_sup_unregister, danos_sup_on_exit,
                danos_sup_start, danos_sup_stop
  <2>2. now' = now /\ entry' = entry /\ allowed' = allowed
    BY <2>1, Zenon DEF flapVars
  <2>3. ASSUME NEW k \in DOMAIN entry
        PROVE  Spaced(allowed[k], entry[k])'
    BY <2>2, Zenon DEF Spaced, InOrder, Gaps, Began
  <2> QED
    BY <2>2, <2>3, Zenon
<1> QED
  BY <1>1, <1>2, <1>3, <1>4, Zenon DEF FlapNext

\* The repairs in a period as long as the window lie within 2 * MaxRepairs - 1 places.
LEMMA SpacedBounds ==
  ASSUME NEW a \in Seq(Nat), Gaps(a, Len(a)), NEW i \in DOMAIN a
  PROVE  Cardinality({j \in DOMAIN a : a[j] \in a[i]..(a[i] + Window)}) < 2 * MaxRepairs
<1> USE RetryAssumption
<1> DEFINE T == {j \in DOMAIN a : a[j] \in a[i]..(a[i] + Window)}
<1>1. Len(a) \in Nat /\ DOMAIN a = 1..Len(a) /\ \A j \in 1..Len(a) : a[j] \in Nat
  OBVIOUS
<1>2. i \in T /\ T \subseteq Nat
  BY <1>1
<1>3. PICK x \in T : \A y \in T : x <= y
  BY <1>2, LeastElement, Zenon
<1>4. x \in 1..Len(a) /\ a[x] >= a[i] /\ a[x] \in Nat
  BY <1>1
<1>5. T \subseteq x..(x + (2 * MaxRepairs - 2))
  <2> SUFFICES ASSUME NEW y \in T, y >= x + (2 * MaxRepairs - 1)
               PROVE  FALSE
    BY <1>1, <1>3, <1>4
  <2>1. y \in 1..Len(a) /\ a[y] <= a[i] + Window /\ a[y] \in Nat
    BY <1>1
  <2>2. a[y] > a[x] + Window
    BY <1>4, <2>1, Zenon DEF Gaps
  <2>3. a[i] \in Nat /\ a[x] >= a[i]
    BY <1>1, <1>4, Zenon
  <2> QED
    BY <1>4, <2>1, <2>2, <2>3
<1> HIDE DEF T
<1> DEFINE z == x + (2 * MaxRepairs - 2)
<1>6. z \in Int /\ x \in Int /\ z >= x /\ z - x + 1 = 2 * MaxRepairs - 1
  BY <1>4
<1>7. T \in SUBSET (x..z)
  BY <1>5, Zenon
<1> HIDE DEF z
<1>8. IsFiniteSet(x..z) /\ Cardinality(x..z) = 2 * MaxRepairs - 1
  <2>1. Cardinality(x..z) = IF x > z THEN 0 ELSE z - x + 1
    BY <1>6, FS_Interval, Zenon
  <2>2. IsFiniteSet(x..z)
    BY <1>6, FS_Interval, Zenon
  <2> QED
    BY <1>6, <2>1, <2>2
<1>9. Cardinality(T) <= Cardinality(x..z) /\ IsFiniteSet(T)
  BY <1>7, <1>8, FS_Subset, Zenon
<1>10. Cardinality(T) \in Nat
  BY <1>9, FS_CardinalityType, Zenon
<1> QED
  BY <1>8, <1>9, <1>10 DEF T

\* The invariant gives RepairBound: no more repairs in a window than allowed.
LEMMA FlapBounds ==
  ASSUME FlapOK
  PROVE  RepairBound
<1> SUFFICES ASSUME NEW k \in DOMAIN entry, NEW i \in DOMAIN allowed[k]
             PROVE  Cardinality({j \in DOMAIN allowed[k] :
                        allowed[k][j] \in allowed[k][i]..(allowed[k][i] + Window)}) < 2 * MaxRepairs
  BY Zenon DEF RepairBound
<1>1. allowed[k] \in Seq(Nat) /\ Gaps(allowed[k], Len(allowed[k]))
  BY Zenon DEF FlapOK, Spaced
<1> QED
  BY <1>1, SpacedBounds, Zenon

-----------------------------------------------------------------------------
(* Restarts. *)

\* The recursive function of the model is defined: g is it up to n.
UpTo(n, g) == g = [i \in 0..n |-> IF i = 0 THEN 1 ELSE 2 * g[i - 1]]

\* The powers of two up to n exist as a function, by induction on n.
LEMMA UpToExists == \A n \in Nat : \E g : UpTo(n, g)
<1> DEFINE T == {n \in Nat : ~\E g : UpTo(n, g)}
<1> SUFFICES ASSUME T # {} PROVE FALSE
  BY Zenon
<1>1. PICK n \in T : \A m \in T : n <= m
  BY LeastElement, Zenon
<1>2. n # 0
  <2> DEFINE h == [i \in 0..0 |-> 1]
  <2>1. UpTo(0, h)
    BY DEF UpTo
  <2> QED
    BY <2>1, Zenon
<1>3. n - 1 \in Nat /\ n - 1 \notin T
  BY <1>1, <1>2
<1>4. PICK g : UpTo(n - 1, g)
  BY <1>3, Zenon
<1> DEFINE h == [i \in 0..n |-> IF i = n THEN 2 * g[n - 1] ELSE g[i]]
<1>5. \A i \in 0..(n - 1) : g[i] = IF i = 0 THEN 1 ELSE 2 * g[i - 1]
  BY <1>4, Zenon DEF UpTo
<1>6. ASSUME NEW i \in 0..n
      PROVE  h[i] = IF i = 0 THEN 1 ELSE 2 * h[i - 1]
  <2>1. CASE i = n
    BY <1>2, <1>3, <2>1
  <2>2. CASE i # n
    BY <1>3, <1>5, <2>2
  <2> QED
    BY <2>1, <2>2, Zenon
<1>7. UpTo(n, h)
  BY <1>6, Zenon DEF UpTo
<1> QED
  BY <1>7, Zenon

\* Two such functions agree where both are defined.
LEMMA UpToAgrees ==
  ASSUME NEW n \in Nat, NEW m \in Nat, NEW g, NEW h, UpTo(n, g), UpTo(m, h), n <= m
  PROVE  \A i \in 0..n : g[i] = h[i]
<1> DEFINE T == {i \in 0..n : g[i] # h[i]}
<1> SUFFICES ASSUME T # {} PROVE FALSE
  BY Zenon
<1>1. PICK x \in T : \A y \in T : x <= y
  <2>1. T \in SUBSET Nat
    OBVIOUS
  <2> QED
    BY <2>1, LeastElement, Zenon
<1>2. /\ \A i \in 0..n : g[i] = IF i = 0 THEN 1 ELSE 2 * g[i - 1]
      /\ \A i \in 0..m : h[i] = IF i = 0 THEN 1 ELSE 2 * h[i - 1]
  BY Zenon DEF UpTo
<1>3. x # 0
  BY <1>2
<1>4. x - 1 \in 0..n /\ x - 1 \notin T
  BY <1>1, <1>3
<1> QED
  BY <1>2, <1>3, <1>4

\* What Doublings computes.
LEMMA DoublingsIs ==
  Doublings = [n \in Nat |-> IF n = 0 THEN 1 ELSE 2 * Doublings[n - 1]]
<1> DEFINE G(n) == CHOOSE g : UpTo(n, g)
           F == [n \in Nat |-> G(n)[n]]
<1>1. \A n \in Nat : UpTo(n, G(n))
  BY UpToExists, Zenon
<1> HIDE DEF G
<1>2. ASSUME NEW n \in Nat
      PROVE  F[n] = IF n = 0 THEN 1 ELSE 2 * F[n - 1]
  <2>1. G(n)[n] = IF n = 0 THEN 1 ELSE 2 * G(n)[n - 1]
    BY <1>1 DEF UpTo
  <2>2. CASE n = 0
    BY <2>1, <2>2, Zenon
  <2>3. CASE n # 0
    <3>1. n - 1 \in Nat /\ n - 1 <= n /\ n - 1 \in 0..(n - 1)
      BY <2>3
    <3>2. G(n - 1)[n - 1] = G(n)[n - 1]
      BY <1>1, <3>1, UpToAgrees
    <3> QED
      BY <2>1, <2>3, <3>1, <3>2, Zenon
  <2> QED
    BY <2>2, <2>3, Zenon
<1>3. F = [n \in Nat |-> IF n = 0 THEN 1 ELSE 2 * F[n - 1]]
  BY <1>2, Zenon
<1> HIDE DEF F
<1> QED
  BY <1>3, Zenon DEF Doublings

\* The recursive function Doublings is the powers of two.
LEMMA DoublingsValues ==
  /\ Doublings[0] = 1
  /\ \A n \in Nat : Doublings[n] \in Nat /\ Doublings[n + 1] = 2 * Doublings[n]
<1>1. \A n \in Nat : Doublings[n] = IF n = 0 THEN 1 ELSE 2 * Doublings[n - 1]
  BY DoublingsIs, Zenon
<1> DEFINE T == {n \in Nat : Doublings[n] \notin Nat}
<1>2. T = {}
  <2> SUFFICES ASSUME T # {} PROVE FALSE
    BY Zenon
  <2>1. PICK n \in T : \A m \in T : n <= m
    BY LeastElement, Zenon
  <2>2. n # 0
    BY <1>1
  <2>3. n - 1 \in Nat /\ n - 1 \notin T
    BY <2>1, <2>2
  <2> QED
    BY <1>1, <2>2, <2>3
<1>3. ASSUME NEW n \in Nat
      PROVE  Doublings[n + 1] = 2 * Doublings[n]
  <2>1. n + 1 \in Nat /\ n + 1 # 0 /\ (n + 1) - 1 = n
    OBVIOUS
  <2> QED
    BY <1>1, <2>1, Zenon
<1> QED
  BY <1>1, <1>2, <1>3, Zenon

\* The delay after n exits.
DelayAfter(n) ==
  LET d == MinDelay * Doublings[n] IN IF d > MaxDelayMs /\ n > 0 THEN MaxDelayMs ELSE d

\* The retry delay starts at the least and doubles up to the greatest.
LEMMA DelayDoubles ==
  /\ DelayAfter(0) = MinDelay
  /\ \A n \in Nat : Doubled(DelayAfter(n)) = DelayAfter(n + 1)
<1> USE RetryAssumption
<1>1. DelayAfter(0) = MinDelay
  BY DoublingsValues DEF DelayAfter
<1>2. ASSUME NEW n \in Nat
      PROVE  Doubled(DelayAfter(n)) = DelayAfter(n + 1)
  <2> DEFINE d == MinDelay * Doublings[n]
  <2>1. d \in Nat /\ MinDelay * Doublings[n + 1] = 2 * d
    BY DoublingsValues
  <2>2. DelayAfter(n) = IF d > MaxDelayMs /\ n > 0 THEN MaxDelayMs ELSE d
    BY Zenon DEF DelayAfter
  <2>3. DelayAfter(n + 1) = IF 2 * d > MaxDelayMs THEN MaxDelayMs ELSE 2 * d
    BY <2>1 DEF DelayAfter
  <2> HIDE DEF d
  <2> QED
    BY <2>1, <2>2, <2>3 DEF Doubled
<1> QED
  BY <1>1, <1>2, Zenon

ProcOK ==
  \A p \in DOMAIN proc :
    /\ proc[p] = [state |-> proc[p].state, restarts |-> proc[p].restarts, delay |-> proc[p].delay]
    /\ proc[p].restarts \in Nat /\ proc[p].delay = DelayAfter(proc[p].restarts)
    /\ proc[p].state = "restarting" => proc[p].restarts \in 1..MaxRestarts

\* The fields of a supervised process.
Entry(n, d, st) == [restarts |-> n, delay |-> d, state |-> st]

\* Each operation keeps ProcOK.
LEMMA StepProc ==
  ASSUME ProcOK, [FlapNext \/ SupNext]_retryVars
  PROVE  ProcOK'
<1>1. ASSUME NEW p \in Procs, danos_sup_register(p)
      PROVE  ProcOK'
  BY <1>1, DelayDoubles, Zenon DEF danos_sup_register, ProcOK
<1>2. ASSUME NEW p \in Procs, danos_sup_unregister(p)
      PROVE  ProcOK'
  BY <1>2, Zenon DEF danos_sup_unregister, ProcOK
<1>3. ASSUME NEW p \in Procs, danos_sup_on_exit(p)
      PROVE  ProcOK'
  <2> DEFINE n == proc[p].restarts + 1
  <2>1. /\ p \in DOMAIN proc /\ DOMAIN proc' = DOMAIN proc
        /\ \A q \in DOMAIN proc \ {p} : proc'[q] = proc[q]
        /\ proc'[p] = [restarts |-> n, delay |-> Doubled(proc[p].delay),
                       state |-> IF n <= MaxRestarts THEN "restarting"
                                 ELSE IF p \in Critical THEN "safe_mode" ELSE "failed"]
    BY <1>3, Zenon DEF danos_sup_on_exit
  <2>2. proc[p].restarts \in Nat /\ proc[p].delay = DelayAfter(proc[p].restarts)
    BY <2>1, Zenon DEF ProcOK
  <2>3. n \in Nat /\ n >= 1 /\ Doubled(proc[p].delay) = DelayAfter(n)
    <3>1. PICK r \in Nat : r = proc[p].restarts
      BY <2>2, Zenon
    <3>2. r + 1 \in Nat /\ r + 1 >= 1
      OBVIOUS
    <3> QED
      BY <2>2, <3>1, <3>2, DelayDoubles, Zenon
  <2> HIDE DEF n
  <2>4. PICK st : /\ st = IF n <= MaxRestarts THEN "restarting"
                          ELSE IF p \in Critical THEN "safe_mode" ELSE "failed"
                  /\ proc'[p] = Entry(n, DelayAfter(n), st)
    BY <2>1, <2>3, Zenon DEF Entry
  <2>5. /\ proc'[p].restarts = n /\ proc'[p].delay = DelayAfter(n)
        /\ proc'[p].state = "restarting" => n \in 1..MaxRestarts
    <3>1. n <= MaxRestarts => n \in 1..MaxRestarts
      BY <2>3, RetryAssumption
    <3>2. st = "restarting" => n <= MaxRestarts
      BY <2>4, Zenon
    <3>3. proc'[p].restarts = n /\ proc'[p].delay = DelayAfter(n) /\ proc'[p].state = st
      <4>1. /\ Entry(n, DelayAfter(n), st).restarts = n
            /\ Entry(n, DelayAfter(n), st).delay = DelayAfter(n)
            /\ Entry(n, DelayAfter(n), st).state = st
        BY Zenon DEF Entry
      <4>2. proc'[p] = Entry(n, DelayAfter(n), st)
        BY <2>4, Zenon
      <4> QED
        BY <4>1, <4>2, Zenon
    <3> QED
      BY <3>1, <3>2, <3>3, Zenon
  <2>6. proc'[p] = [state |-> proc'[p].state, restarts |-> proc'[p].restarts, delay |-> proc'[p].delay]
    BY <2>1, Zenon
  <2> QED
    BY <2>1, <2>3, <2>5, <2>6, Zenon DEF ProcOK
<1>4. CASE danos_sup_start
  BY <1>4 DEF danos_sup_start, ProcOK
<1>5. CASE danos_sup_stop
  BY <1>5 DEF danos_sup_stop, ProcOK
<1>6. CASE FlapNext \/ UNCHANGED retryVars
  <2>1. proc' = proc
    BY <1>6, Zenon DEF FlapNext, antiflap_check_and_record, antiflap_clear, Pass, retryVars
  <2> QED
    BY <2>1, Zenon DEF ProcOK
<1> QED
  BY <1>1, <1>2, <1>3, <1>4, <1>5, <1>6, Zenon DEF SupNext

\* However repairs of an object and exits of a process fall in time, and whatever is
\* cleared, started, stopped or registered again, antiflap_check_and_record lets fewer than
\* twice max_count repairs through in any period as long as the window, and
\* danos_sup_on_exit gives a process the delay that doubles up to the cap and restarts it at
\* most MaxRestarts times.
THEOREM RetriesAreBounded == RetrySpec => []RetryBounded
<1>1. RetryInit => FlapOK /\ ProcOK
  <2>1. ASSUME RetryInit
        PROVE  now \in Nat /\ DOMAIN entry = {} /\ DOMAIN proc = {}
               /\ allowed = [k \in Keys |-> << >>]
    BY <2>1 DEF RetryInit
  <2> QED
    BY <2>1, Zenon DEF FlapOK, ProcOK
<1>2. FlapOK /\ ProcOK /\ [FlapNext \/ SupNext]_retryVars => (FlapOK /\ ProcOK)'
  BY StepFlap, StepProc, Zenon
<1>3. FlapOK /\ ProcOK => RetryBounded
  <2> SUFFICES ASSUME FlapOK, ProcOK PROVE RetryBounded
    BY Zenon
  <2>1. BackoffExact
    BY Zenon DEF ProcOK, BackoffExact, DelayAfter
  <2> QED
    BY <2>1, FlapBounds, Zenon DEF RetryBounded
<1> QED
  BY <1>1, <1>2, <1>3, PTL DEF RetrySpec
=============================================================================
