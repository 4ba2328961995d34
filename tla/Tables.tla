------------------------------- MODULE Tables -------------------------------
(***************************************************************************)
(* Fixed tables kept by one thread:                                        *)
(*   danos-ha/src/bfd.c            BFD sessions, with a state callback     *)
(*   danos-ha/src/vrrp.c           VRRP sessions                           *)
(*   danos-dpa/src/dpa_version.c   backends, and what dpa_capability.c     *)
(*                                 and capability_registry.c find there    *)
(*   danos-security/src/audit.c    the audit ring                          *)
(***************************************************************************)
EXTENDS Integers, Sequences, FiniteSets

CONSTANTS BfdIds, BfdStates, Down, BfdMax,   \* BFD_MAX_SESSIONS
          VrrpKeys, VrrpMax,                 \* VRRP_MAX_SESSIONS
          Backends, BackendMax,              \* DANOS_MAX_BACKENDS
          AuditMax,                          \* MAX_ENTRIES
          MaxAudits,                         \* entries logged (a bound of the model)
          Nothing

ASSUME TablesAssumption ==
  BfdMax \in Nat /\ VrrpMax \in Nat /\ AuditMax \in Nat \ {0} /\ Nothing \notin VrrpKeys

VARIABLES bfd,       \* slot -> [id, used, state]
          bfdReady,  \* g_initialized
          listening, \* g_callback
          bfdTold,   \* history: id -> the state the listener believes
          vrrp,      \* slot -> key or Nothing
          backends,  \* slots up to g_backend_count: [name, used]
          logOpen,   \* g_log_fp
          ring, ringHead, ringCount,
          audits     \* history: entries logged since the last init

bfdVars == <<bfd, bfdReady, listening, bfdTold>>
auditVars == <<logOpen, ring, ringHead, ringCount, audits>>
tableVars == <<bfdVars, vrrp, backends, auditVars>>

TablesInit ==
  /\ bfd = [i \in 1..BfdMax |-> [id |-> Nothing, used |-> FALSE, state |-> Down]]
  /\ bfdReady = FALSE /\ listening = FALSE /\ bfdTold = [b \in BfdIds |-> Down]
  /\ vrrp = [i \in 1..VrrpMax |-> Nothing]
  /\ backends = << >>
  /\ logOpen = FALSE
  /\ ring = [i \in 0..(AuditMax - 1) |-> Nothing] /\ ringHead = 0 /\ ringCount = 0
  /\ audits = << >>

First(S) == CHOOSE i \in S : \A j \in S : i <= j

-----------------------------------------------------------------------------
(* bfd.c *)

BfdSlots(b) == {i \in 1..BfdMax : bfd[i].used /\ bfd[i].id = b}
OtherTables == UNCHANGED <<vrrp, backends, auditVars>>

\* The listener reads the states of the sessions there are as it registers.
danos_bfd_register_callback ==
  /\ listening' = TRUE
  /\ bfdTold' = [b \in BfdIds |-> IF BfdSlots(b) = {} THEN Down ELSE bfd[First(BfdSlots(b))].state]
  /\ UNCHANGED <<bfd, bfdReady>> /\ OtherTables

danos_bfd_init ==
  /\ bfd' = [i \in 1..BfdMax |-> [id |-> Nothing, used |-> FALSE, state |-> Down]]
  /\ bfdReady' = TRUE /\ listening' = FALSE
  /\ UNCHANGED bfdTold /\ OtherTables

\* The first free slot; its old contents are overwritten.
NewEntry(b) == [id |-> b, used |-> TRUE, state |-> Down]

\* The first create initialises the table, and drops a callback registered before it.
danos_bfd_create(b) ==
  LET free == {i \in 1..BfdMax : ~bfd[i].used} IN
  /\ BfdSlots(b) = {} /\ free # {}
  /\ bfd' = [bfd EXCEPT ![First(free)] = NewEntry(b)]
  /\ bfdTold' = [bfdTold EXCEPT ![b] = Down]
  /\ bfdReady' = TRUE /\ listening' = (listening /\ bfdReady)
  /\ OtherTables

\* danos_bfd_update replaces the parameters and leaves the state.
danos_bfd_update(b) == BfdSlots(b) # {} /\ UNCHANGED tableVars

danos_bfd_delete(b) ==
  /\ BfdSlots(b) # {}
  /\ bfd' = [bfd EXCEPT ![First(BfdSlots(b))].used = FALSE]
  /\ UNCHANGED <<bfdReady, listening, bfdTold>> /\ OtherTables

\* danos_bfd_set_state calls back when the state is a new one.
danos_bfd_set_state(b, s) ==
  /\ BfdSlots(b) # {}
  /\ LET i == First(BfdSlots(b)) IN
     /\ bfd[i].state # s
     /\ bfd' = [bfd EXCEPT ![i].state = s]
  /\ bfdTold' = IF listening THEN [bfdTold EXCEPT ![b] = s] ELSE bfdTold
  /\ UNCHANGED <<bfdReady, listening>> /\ OtherTables

-----------------------------------------------------------------------------
(* vrrp.c.  Nothing in it changes a session's state. *)

VrrpSlots(k) == {i \in 1..VrrpMax : vrrp[i] = k}

danos_vrrp_create(k) ==
  /\ VrrpSlots(k) = {} /\ VrrpSlots(Nothing) # {}
  /\ vrrp' = [vrrp EXCEPT ![First(VrrpSlots(Nothing))] = k]
  /\ UNCHANGED <<bfdVars, backends, auditVars>>

danos_vrrp_update(k) == VrrpSlots(k) # {} /\ UNCHANGED tableVars

danos_vrrp_delete(k) ==
  /\ VrrpSlots(k) # {}
  /\ vrrp' = [vrrp EXCEPT ![First(VrrpSlots(k))] = Nothing]
  /\ UNCHANGED <<bfdVars, backends, auditVars>>

-----------------------------------------------------------------------------
(* dpa_version.c *)

Registered(n) == {i \in DOMAIN backends : backends[i].used /\ backends[i].name = n}

\* A slot is never used again: g_backend_count only grows.
\* Mutant: a duplicate is looked for in the newest slot only.
KnownNewest(n) == backends # << >> /\ backends[Len(backends)] = [name |-> n, used |-> TRUE]

Known(n) == Registered(n) # {}

danos_backend_register(n) ==
  /\ Len(backends) < BackendMax /\ ~Known(n)
  /\ backends' = Append(backends, [name |-> n, used |-> TRUE])
  /\ UNCHANGED <<bfdVars, vrrp, auditVars>>

danos_backend_unregister(n) ==
  /\ Registered(n) # {}
  /\ backends' = [backends EXCEPT ![First(Registered(n))].used = FALSE]
  /\ UNCHANGED <<bfdVars, vrrp, auditVars>>

danos_backend_reset ==
  /\ backends' = << >> /\ UNCHANGED <<bfdVars, vrrp, auditVars>>

\* danos_backend_get_info: a slot that was given up looks like the end of the table.
get_info(i) == i \in DOMAIN backends /\ backends[i].used

\* danos_capability_query and danos_core_capability_supported walk from slot 0 to
\* the first that is not there.
danos_capability_query(n) ==
  {i \in DOMAIN backends : backends[i].name = n /\ \A j \in 1..i : get_info(j)}

-----------------------------------------------------------------------------
(* audit.c *)

\* The file may not open: the ring serves alone then.
danos_audit_init ==
  /\ logOpen' \in BOOLEAN
  /\ ringHead' = 0 /\ ringCount' = 0 /\ audits' = << >>
  /\ UNCHANGED <<ring, bfdVars, vrrp, backends>>

danos_audit_close ==
  /\ logOpen' = FALSE
  /\ UNCHANGED <<ring, ringHead, ringCount, audits, bfdVars, vrrp, backends>>

\* Entries are told apart by their number.  The first entry of a log that is not
\* open opens it; a later one does not.
danos_audit_log ==
  /\ Len(audits) < MaxAudits
  /\ IF ~logOpen /\ ringCount = 0 THEN logOpen' \in BOOLEAN ELSE UNCHANGED logOpen
  /\ ring' = [ring EXCEPT ![ringHead] = Len(audits) + 1]
  /\ ringHead' = (ringHead + 1) % AuditMax
  /\ ringCount' = IF ringCount < AuditMax THEN ringCount + 1 ELSE ringCount
  /\ audits' = Append(audits, Len(audits) + 1)
  /\ UNCHANGED <<bfdVars, vrrp, backends>>

\* Where a query begins, and all it returns for tx_id 0.
Oldest == IF ringCount < AuditMax THEN 0 ELSE ringHead

danos_audit_query == [i \in 1..ringCount |-> ring[(Oldest + i - 1) % AuditMax]]

BfdNext ==
  \/ danos_bfd_init \/ danos_bfd_register_callback
  \/ \E b \in BfdIds : \/ danos_bfd_create(b) \/ danos_bfd_update(b) \/ danos_bfd_delete(b)
                       \/ \E s \in BfdStates : danos_bfd_set_state(b, s)

VrrpNext ==
  \E k \in VrrpKeys : danos_vrrp_create(k) \/ danos_vrrp_update(k) \/ danos_vrrp_delete(k)

BackendNext ==
  \/ \E n \in Backends : danos_backend_register(n) \/ danos_backend_unregister(n)
  \/ danos_backend_reset

AuditNext == danos_audit_init \/ danos_audit_close \/ danos_audit_log

TablesSpec == TablesInit /\ [][BfdNext \/ VrrpNext \/ BackendNext \/ AuditNext]_tableVars

-----------------------------------------------------------------------------
(* Properties. *)

\* As long as the callback is in place, a listener that knows new sessions to be Down
\* knows the state of every session, though slots are used again and neither creating
\* nor deleting a session calls back.
ListenerKnows ==
  listening => \A i \in 1..BfdMax : bfd[i].used => bfdTold[bfd[i].id] = bfd[i].state

\* No name or key is in a table twice, after any sequence of additions and removals,
\* so a removal leaves nothing behind; and a capability query names at most one
\* backend, a registered one.
KeysUnique ==
  /\ \A b \in BfdIds : Cardinality(BfdSlots(b)) <= 1
  /\ \A k \in VrrpKeys : Cardinality(VrrpSlots(k)) <= 1
  /\ \A n \in Backends : Cardinality(Registered(n)) <= 1 /\ danos_capability_query(n) \subseteq Registered(n)

\* A query returns the newest entries, as many as the ring holds, oldest first.
AuditNewest ==
  danos_audit_query = SubSeq(audits, Len(audits) - ringCount + 1, Len(audits))

\* The three tables and the ring over any sequence of calls: a listener's knowledge is
\* current, keys are unique, and a query returns the newest entries.
TablesExact == ListenerKnows /\ KeysUnique /\ AuditNewest
=============================================================================
