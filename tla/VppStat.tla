------------------------------ MODULE VppStat ------------------------------
(***************************************************************************)
(* Reading VPP's statistics segment: danos-vpp/src/api/vpp_stat.c.         *)
(*                                                                         *)
(* VPP (external) writes shared memory: workers add to counters at any     *)
(* time; the directory, which says where a name's counter is, changes only *)
(* while in_progress is set, and epoch grows with every such change.  The  *)
(* reader takes no lock: it looks the name up, reads the counter, and then *)
(* looks at epoch and in_progress again.  VPP may die at any point, which  *)
(* leaves the mapped segment as it was.                                    *)
(***************************************************************************)
EXTENDS Integers, FiniteSets

CONSTANTS StatNames,  \* names of counters
          Places,     \* counters of the segment
          SpinMax,    \* attempts of stat_read, 1000 in the code
          MaxCount,   \* value of a counter (a bound of the model)
          MaxEpoch,   \* changes of the directory (a bound of the model)
          NoName      \* a place that is not in use

VARIABLES segAlive,   \* VPP writes the segment
          epoch, inProgress,
          place,      \* the directory: place -> name
          count,      \* the counters: place -> value
          mapped,     \* g_stat.connected
          spc,        \* where the reader is
          want,       \* the name asked for
          epoch0,     \* the epoch before the lookup
          found,      \* the place found, or NoName
          value,      \* *out
          spins,
          answer,     \* what danos_vpp_stat_query_real returned
          held        \* history: what the name stood for since the attempt began

segment == <<segAlive, epoch, inProgress, place, count>>
reader == <<mapped, spc, want, epoch0, found, value, spins, answer>>
statVars == <<segment, reader, held>>

\* The counters of a name: none or one.
PlacesOf(n) == {p \in Places : place[p] = n}

StatInit ==
  /\ segAlive = TRUE /\ epoch = 0 /\ inProgress = FALSE
  /\ place \in [Places -> StatNames \cup {NoName}]
  /\ \A n \in StatNames : Cardinality(PlacesOf(n)) <= 1
  /\ count = [p \in Places |-> 0]
  /\ mapped = FALSE /\ spc = "idle" /\ want = NoName /\ epoch0 = 0 /\ found = NoName
  /\ value = 0 /\ spins = 0 /\ answer = 0 /\ held = {}

\* History: what the wanted name stands for, while an attempt runs.  An empty
\* place set, in a consistent directory, is the answer 0.
Standings == IF inProgress' THEN {} ELSE
  IF {p \in Places : place'[p] = want} = {} THEN {0}
  ELSE {count'[p] : p \in {q \in Places : place'[q] = want}}
Witness == held' = IF spc = "idle" THEN held ELSE held \cup Standings

-----------------------------------------------------------------------------
(* VPP. *)

\* A worker counts.
Count ==
  /\ segAlive /\ \E p \in Places :
       /\ place[p] # NoName /\ count[p] < MaxCount
       /\ count' = [count EXCEPT ![p] = @ + 1]
  /\ UNCHANGED <<segAlive, epoch, inProgress, place, reader>>
  /\ Witness

SegmentLock ==
  /\ segAlive /\ ~inProgress /\ epoch < MaxEpoch
  /\ inProgress' = TRUE
  /\ UNCHANGED <<segAlive, epoch, place, count, reader>>
  /\ Witness

\* One write of a directory change: a name appears at a place, or goes.
SegmentWrite ==
  /\ segAlive /\ inProgress
  /\ \E p \in Places, n \in StatNames \cup {NoName} :
       /\ place' = [place EXCEPT ![p] = n]
       /\ \E v \in {0, count[p]} : count' = [count EXCEPT ![p] = v]
  /\ UNCHANGED <<segAlive, epoch, inProgress, reader>>
  /\ Witness

SegmentUnlock ==
  /\ segAlive /\ inProgress
  /\ \A n \in StatNames : Cardinality(PlacesOf(n)) <= 1
  /\ inProgress' = FALSE /\ epoch' = epoch + 1
  /\ UNCHANGED <<segAlive, place, count, reader>>
  /\ Witness

SegmentDies ==
  /\ segAlive /\ segAlive' = FALSE
  /\ UNCHANGED <<epoch, inProgress, place, count, reader>>
  /\ Witness

-----------------------------------------------------------------------------
(* The reader. *)

\* danos_vpp_stat_connect: the segment is mapped, or some step fails.
StatConnect ==
  /\ spc = "idle" /\ mapped' \in {segAlive, FALSE}
  /\ UNCHANGED <<segment, spc, want, epoch0, found, value, spins, answer, held>>

\* danos_vpp_stat_disconnect.
StatDisconnect ==
  /\ spc = "idle" /\ mapped /\ mapped' = FALSE
  /\ UNCHANGED <<segment, spc, want, epoch0, found, value, spins, answer, held>>

\* danos_vpp_stat_query_real: 0 without a segment, as for a name it does not find.
Query ==
  /\ spc = "idle"
  /\ \E n \in StatNames :
       /\ want' = n
       /\ IF mapped THEN spc' = "epoch" /\ spins' = 0 /\ UNCHANGED answer
          ELSE answer' = 0 /\ UNCHANGED <<spc, spins>>
  /\ held' = {}
  /\ UNCHANGED <<segment, mapped, epoch0, found, value>>

\* An attempt failed: once more, or false after SpinMax of them.
Spin ==
  IF spins + 1 = SpinMax THEN spc' = "idle" /\ answer' = 0 /\ UNCHANGED spins
  ELSE spc' = "epoch" /\ spins' = spins + 1 /\ UNCHANGED answer

\* A writer is active, or the attempt begins with the epoch.
ReadEpoch ==
  /\ spc = "epoch"
  /\ UNCHANGED <<segment, mapped, want, found, value>>
  /\ IF inProgress THEN Spin /\ UNCHANGED <<epoch0, held>>
     ELSE spc' = "find" /\ epoch0' = epoch /\ UNCHANGED <<spins, answer>> /\ Witness

\* dir_first and the walk: the first entry of that name.
FindEntry ==
  /\ spc = "find"
  /\ found' \in IF PlacesOf(want) = {} THEN {NoName} ELSE PlacesOf(want)
  /\ spc' = IF PlacesOf(want) = {} THEN "check" ELSE "value"
  /\ UNCHANGED <<segment, mapped, want, epoch0, value, spins, answer>>
  /\ Witness

\* read_simple_counter, at the place found.
ReadValue ==
  /\ spc = "value" /\ spc' = "check"
  /\ value' = count[found]
  /\ UNCHANGED <<segment, mapped, want, epoch0, found, spins, answer>>
  /\ Witness

\* The attempt counts if no writer is active and none has been since.
\* Mutant: only in_progress is looked at.
SettledNow == ~inProgress

Settled == ~inProgress /\ epoch = epoch0

CheckEpoch ==
  /\ spc = "check"
  /\ IF Settled
     THEN spc' = "idle" /\ answer' = (IF found = NoName THEN 0 ELSE value) /\ UNCHANGED spins
     ELSE Spin
  /\ UNCHANGED <<segment, mapped, want, epoch0, found, value, held>>

StatReader == ReadEpoch \/ FindEntry \/ ReadValue \/ CheckEpoch

StatNext ==
  \/ StatReader \/ StatConnect \/ StatDisconnect \/ Query
  \/ Count \/ SegmentLock \/ SegmentWrite \/ SegmentUnlock \/ SegmentDies

StatSpec == StatInit /\ [][StatNext]_statVars

StatFairness == WF_statVars(StatReader)

-----------------------------------------------------------------------------
(* Properties. *)

\* A value other than 0 that the query returns was the name's own counter at some
\* moment of the query: never that of another name, nor a mixture, although
\* nothing keeps the writer out while it is read.  (0 is also the answer for a
\* name that is not there and for a segment that never settles.)
QueryConsistent == spc = "idle" /\ answer # 0 => answer \in held

\* Every query ends, also when VPP died in the middle of a directory change.
QueryEnds == (spc # "idle") ~> (spc = "idle")
=============================================================================
