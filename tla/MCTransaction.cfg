\* Three threads on two shared handles.  The system may stop once every
\* transaction is finished and nobody calls.  No symmetry: a liveness property is checked.
CONSTANTS
  Threads = {th1, th2, th3}
  Txs = {t1, t2}
  NoThread = NoThread
  NoTx = NoTx
SPECIFICATION FairSpec
CHECK_DEADLOCK FALSE
INVARIANTS TypeOK SingleWriter ActiveCountExact
PROPERTIES Lifecycle CallsReturn
