----------------------------- MODULE StateDiff -----------------------------
(***************************************************************************)
(* Comparing desired with programmed state:                                *)
(*   danos-core/src/state/state_store.c                                    *)
(*                                                                         *)
(* Three object stores with a lock each.  danos_state_diff_desired_        *)
(* programmed holds the lock of the desired store while it walks it, and   *)
(* reads each programmed object twice, for its size and for its contents,  *)
(* each time under that store's own lock; the programmed store may change  *)
(* in between.  danos_state_set is a create and, if that is refused, an    *)
(* update.                                                                 *)
(***************************************************************************)
EXTENDS Integers, Sequences, FiniteSets

CONSTANTS DiffObjs,   \* objects
          Contents,   \* contents: records with a size
          Setters,    \* threads that set and delete
          MaxSets,    \* calls of theirs (a bound of the model)
          Absent

ASSUME AbsentAssumption == Absent \notin DiffObjs \cup Contents

VARIABLES desired, programmed,  \* object -> contents or Absent
          holding,   \* the diff holds the desired store's lock
          toVisit,   \* objects it has yet to compare
          visiting,  \* the object it is at, or Absent
          psize,     \* the size it has read, or Absent
          diffs,     \* objects it has reported
          setting,   \* setter -> what it is about to do, or Absent
          sets,
          equal      \* history: objects whose two contents were equal since the lock was taken

diffStores == <<desired, programmed>>
differ == <<holding, toVisit, visiting, psize, diffs>>
diffVars == <<diffStores, differ, setting, sets, equal>>

\* The desired store is what earlier calls left in it.
DiffInit ==
  /\ desired \in [DiffObjs -> Contents \cup {Absent}]
  /\ programmed = [o \in DiffObjs |-> Absent]
  /\ holding = FALSE /\ toVisit = {} /\ visiting = Absent /\ psize = Absent /\ diffs = {}
  /\ setting = [t \in Setters |-> Absent] /\ sets = 0 /\ equal = {}

\* History: equality in the state that a step leads to.
Meet == equal' = equal \cup {o \in DiffObjs : desired'[o] = programmed'[o]}

-----------------------------------------------------------------------------
(* danos_state_set and danos_state_delete. *)

\* The create of a set: it succeeds, or the object is there and an update follows.
SetCreate(t) ==
  /\ setting[t] = Absent /\ sets < MaxSets /\ sets' = sets + 1
  /\ \E o \in DiffObjs, c \in Contents, k \in {"desired", "programmed"} :
       LET s == IF k = "desired" THEN desired ELSE programmed
           written == [s EXCEPT ![o] = c]
       IN /\ k = "desired" => ~holding
          /\ IF s[o] = Absent
             THEN /\ desired' = IF k = "desired" THEN written ELSE desired
                  /\ programmed' = IF k = "programmed" THEN written ELSE programmed
                  /\ UNCHANGED setting
             ELSE /\ setting' = [setting EXCEPT ![t] = [store |-> k, obj |-> o, val |-> c]]
                  /\ UNCHANGED diffStores
  /\ UNCHANGED differ
  /\ Meet

\* The update of a set; an object deleted in between is not set at all.
SetUpdate(t) ==
  /\ setting[t] # Absent /\ setting' = [setting EXCEPT ![t] = Absent]
  /\ LET j == setting[t]
         s == IF j.store = "desired" THEN desired ELSE programmed
         written == IF s[j.obj] = Absent THEN s ELSE [s EXCEPT ![j.obj] = j.val]
     IN /\ j.store = "desired" => ~holding
        /\ desired' = IF j.store = "desired" THEN written ELSE desired
        /\ programmed' = IF j.store = "programmed" THEN written ELSE programmed
  /\ UNCHANGED <<differ, sets>>
  /\ Meet

Delete(t) ==
  /\ setting[t] = Absent /\ sets < MaxSets /\ sets' = sets + 1
  /\ \E o \in DiffObjs :
       \/ ~holding /\ desired[o] # Absent /\ desired' = [desired EXCEPT ![o] = Absent]
          /\ UNCHANGED programmed
       \/ programmed[o] # Absent /\ programmed' = [programmed EXCEPT ![o] = Absent]
          /\ UNCHANGED desired
  /\ UNCHANGED <<differ, setting>>
  /\ Meet

-----------------------------------------------------------------------------
(* danos_state_diff_desired_programmed. *)

DiffLock ==
  /\ ~holding /\ holding' = TRUE
  /\ toVisit' = {o \in DiffObjs : desired[o] # Absent}
  /\ visiting' = Absent /\ psize' = Absent /\ diffs' = {}
  /\ equal' = {o \in DiffObjs : desired[o] = programmed[o]}
  /\ UNCHANGED <<diffStores, setting, sets>>

\* The first read: the object's size, or NOT_FOUND.
DiffSize ==
  /\ holding /\ visiting = Absent
  /\ \E o \in toVisit :
       /\ toVisit' = toVisit \ {o}
       /\ IF programmed[o] = Absent
          THEN diffs' = diffs \cup {o} /\ UNCHANGED <<visiting, psize>>
          ELSE visiting' = o /\ psize' = programmed[o].size /\ UNCHANGED diffs
  /\ UNCHANGED <<diffStores, holding, setting, sets, equal>>

\* The second read, into a buffer of that size: too small for contents that have
\* grown, and shorter than it for contents that have shrunk.
\* Mutant: only the sizes are compared.
SameSize(o) == programmed[o] # Absent /\ programmed[o].size = desired[o].size

Same(o) ==
  /\ programmed[o] # Absent /\ programmed[o].size <= psize
  /\ programmed[o] = desired[o]

DiffCompare ==
  /\ holding /\ visiting # Absent
  /\ diffs' = IF Same(visiting) THEN diffs ELSE diffs \cup {visiting}
  /\ visiting' = Absent /\ psize' = Absent
  /\ UNCHANGED <<diffStores, holding, toVisit, setting, sets, equal>>

DiffUnlock ==
  /\ holding /\ toVisit = {} /\ visiting = Absent /\ holding' = FALSE
  /\ UNCHANGED <<diffStores, toVisit, visiting, psize, diffs, setting, sets, equal>>

DiffNext ==
  \/ \E t \in Setters : SetCreate(t) \/ SetUpdate(t) \/ Delete(t)
  \/ DiffLock \/ DiffSize \/ DiffCompare \/ DiffUnlock

DiffSpec == DiffInit /\ [][DiffNext]_diffVars

-----------------------------------------------------------------------------
(* Properties. *)

\* An object the walk has passed without reporting it was in step at some moment of
\* the walk: its size and contents, read at two moments, never add up to a match
\* that was none.
UnreportedWasEqual ==
  holding => \A o \in DiffObjs :
    desired[o] # Absent /\ o \notin toVisit \cup diffs \cup {visiting} => o \in equal
=============================================================================
