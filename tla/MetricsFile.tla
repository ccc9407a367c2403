------------------------------ MODULE MetricsFile ------------------------------
(***************************************************************************)
(* /var/log/lxc_metrics.json, the only state the monitor and the model     *)
(* share: how the monitor rewrites it every cycle (lxc_monitor.py, from    *)
(* collect_and_export_metrics on) and what the model's load_data sees.     *)
(*                                                                         *)
(* A snapshot is the number of the cycle that collected it; a version of   *)
(* the file is a sequence of snapshots, NoFile, or Torn: anything that is  *)
(* not the JSON list some cycle wrote.                                     *)
(*                                                                         *)
(* When the host dies, what was not flushed may be lost: `after` holds the *)
(* versions the file may have when it is up again.  A rename is not forced *)
(* out (the directory is not synced), so the old version remains possible  *)
(* until the kernel has written everything back (Settle).                  *)
(***************************************************************************)
EXTENDS Integers, Sequences

CONSTANTS
    NoFile,
    Torn,
    MaxEntries,  \* monitoring.max_metrics_entries
    MaxCycles,   \* bound: the cycles that collect something
    MaxFaults    \* bound: failing system calls and crashes

ASSUME FileAssumption ==
    /\ NoFile # Torn /\ NoFile \notin Seq(Nat) /\ Torn \notin Seq(Nat)
    /\ MaxEntries \in Nat \ {0}
    /\ MaxCycles \in Nat
    /\ MaxFaults \in Nat

VARIABLES
    file,     \* the version under the export file's name
    after,    \* the versions a crash of the host may leave
    temp,     \* the temporary file: [data, state], or NoFile
    pc,       \* where the monitor is
    buf,      \* the list it is about to write
    cycle,    \* the number of the latest snapshot
    loaded,   \* what the model's latest load_data returned
    misreads, \* history: how often the monitor could not read its own file
    budget    \* faults left

vars == <<file, after, temp, pc, buf, cycle, loaded, misreads, budget>>

Lists == Seq(1..MaxCycles)

(* What is written has been cut to size. *)
Versions == {list \in Lists : Len(list) <= MaxEntries}

Fault == budget > 0 /\ budget' = budget - 1

(* Anything but a list reads as no history at all. *)
AsList(version) == IF version \in {NoFile, Torn} THEN <<>> ELSE version

\* Mutant: the oldest entries are kept.
OldestKept(list) == IF Len(list) > MaxEntries THEN SubSeq(list, 1, MaxEntries) ELSE list

\* Mutant: one entry too many.
TrimmedLate(list) ==
    IF Len(list) > MaxEntries + 1
    THEN SubSeq(list, Len(list) - MaxEntries, Len(list))
    ELSE list

(* The rotation: the last MaxEntries snapshots. *)
Trimmed(list) ==
    IF Len(list) > MaxEntries
    THEN SubSeq(list, Len(list) - MaxEntries + 1, Len(list))
    ELSE list

Init ==
    /\ file = NoFile
    /\ after = {NoFile}
    /\ temp = NoFile
    /\ pc = "sleep"
    /\ buf = <<>>
    /\ cycle = 0
    /\ loaded = NoFile
    /\ misreads = 0
    /\ budget = MaxFaults

-----------------------------------------------------------------------------
(* Nothing runs, or no container could be read: the file is left alone. *)
EmptyCycle == pc = "sleep" /\ UNCHANGED vars

(* A cycle has collected metrics of at least one container. *)
Collect ==
    /\ pc = "sleep"
    /\ cycle < MaxCycles
    /\ cycle' = cycle + 1
    /\ pc' = "load"
    /\ UNCHANGED <<file, after, temp, buf, loaded, misreads, budget>>

\* Mutant: the snapshot is put in front.
LoadExistingBackwards ==
    /\ pc = "load"
    /\ buf' = <<cycle>> \o AsList(file)
    /\ pc' = "write"
    /\ UNCHANGED <<file, after, temp, cycle, loaded, misreads, budget>>

\* Mutant: every cycle starts a new list.
LoadNothing ==
    /\ pc = "load"
    /\ buf' = <<cycle>>
    /\ pc' = "write"
    /\ UNCHANGED <<file, after, temp, cycle, loaded, misreads, budget>>

(* load_existing_data, and the snapshot appended.  A file that cannot be   *)
(* read counts as empty.                                                   *)
LoadExisting ==
    /\ pc = "load"
    /\ \/ /\ buf' = Append(AsList(file), cycle)
          /\ UNCHANGED <<misreads, budget>>
       \/ /\ file # NoFile
          /\ Fault
          /\ buf' = <<cycle>>
          /\ misreads' = misreads + 1
    /\ pc' = "write"
    /\ UNCHANGED <<file, after, temp, cycle, loaded>>

(* The temporary file is opened, which truncates it, and written. *)
WriteTemp ==
    /\ pc = "write"
    /\ temp' = [data |-> Trimmed(buf), state |-> "cached"]
    /\ pc' = "sync"
    /\ UNCHANGED <<file, after, buf, cycle, loaded, misreads, budget>>

\* Mutant: no fsync.
SyncNothing ==
    /\ pc = "sync"
    /\ pc' = "replace"
    /\ UNCHANGED <<file, after, temp, buf, cycle, loaded, misreads, budget>>

(* flush and os.fsync. *)
Sync ==
    /\ pc = "sync"
    /\ temp' = [temp EXCEPT !.state = "synced"]
    /\ pc' = "replace"
    /\ UNCHANGED <<file, after, buf, cycle, loaded, misreads, budget>>

(* os.replace.  Data that was not synced may reach the disk after the name. *)
Replace ==
    /\ pc = "replace"
    /\ file' = temp.data
    /\ after' = after \cup {temp.data} \cup (IF temp.state = "synced" THEN {} ELSE {Torn})
    /\ temp' = NoFile
    /\ pc' = "sleep"
    /\ UNCHANGED <<buf, cycle, loaded, misreads, budget>>

\* Mutant: the file under its final name is removed, not the temporary one.
WriteErrorRemoves ==
    /\ pc \in {"write", "sync", "replace"}
    /\ Fault
    /\ file' = NoFile
    /\ after' = after \cup {NoFile}
    /\ pc' = "sleep"
    /\ UNCHANGED <<temp, buf, cycle, loaded, misreads>>

(* OSError while writing, or in os.replace: the temporary file is removed, *)
(* which may fail too and then ends the cycle one level higher.            *)
WriteError ==
    /\ pc \in {"write", "sync", "replace"}
    /\ Fault
    /\ temp' \in {NoFile, temp}
    /\ pc' = "sleep"
    /\ UNCHANGED <<file, after, buf, cycle, loaded, misreads>>

(* The monitor's process dies. *)
Crash ==
    /\ pc # "down"
    /\ Fault
    /\ pc' = "down"
    /\ buf' = <<>>
    /\ UNCHANGED <<file, after, temp, cycle, loaded, misreads>>

(* The host dies. *)
HostCrash ==
    /\ Fault
    /\ file' \in after
    /\ after' = {file'}
    /\ temp' \in {temp, NoFile}
    /\ pc' = "down"
    /\ buf' = <<>>
    /\ loaded' = NoFile
    /\ UNCHANGED <<cycle, misreads>>

(* systemd starts it again. *)
Restart ==
    /\ pc = "down"
    /\ pc' = "sleep"
    /\ UNCHANGED <<file, after, temp, buf, cycle, loaded, misreads, budget>>

(* The kernel writes everything back. *)
Settle ==
    /\ after # {file}
    /\ after' = {file}
    /\ UNCHANGED <<file, temp, pc, buf, cycle, loaded, misreads, budget>>

(* The model's load_data: the file is opened and read at any moment. *)
LoadData ==
    /\ loaded' = file
    /\ loaded' # loaded
    /\ UNCHANGED <<file, after, temp, pc, buf, cycle, misreads, budget>>

Monitor == Collect \/ LoadExisting \/ WriteTemp \/ Sync \/ Replace \/ Restart

Next == EmptyCycle \/ Monitor \/ WriteError \/ Crash \/ HostCrash \/ Settle \/ LoadData

Spec == Init /\ [][Next]_vars

(* The two services run; faults are not owed. *)
FairSpec == Spec /\ WF_vars(Monitor) /\ WF_vars(LoadData)

-----------------------------------------------------------------------------
(* Types. *)
TypeOK ==
    /\ file \in {NoFile, Torn} \cup Versions
    /\ after \subseteq {NoFile, Torn} \cup Versions
    /\ temp \in {NoFile} \cup [data: Versions, state: {"cached", "synced"}]
    /\ pc \in {"sleep", "load", "write", "sync", "replace", "down"}
    /\ buf \in Lists
    /\ cycle \in 0..MaxCycles
    /\ loaded \in {NoFile, Torn} \cup Versions
    /\ misreads \in Nat
    /\ budget \in 0..MaxFaults

(* README.md:213-214: "written through a temporary file and renamed into   *)
(* place so a crash cannot truncate it".  Wherever the monitor or the host *)
(* dies, now or later, what remains is a complete list.                    *)
NeverTorn == file # Torn /\ Torn \notin after

Ordered(list) == \A i, j \in 1..Len(list) : i < j => list[i] < list[j]

(* The snapshots stay in the order they were collected, none twice,        *)
(* whatever failed or was replayed after a crash: the rolling windows and  *)
(* time differences of preprocess_data rely on it.                         *)
HistoryInOrder ==
    \A version \in after \cup {file, loaded} : Ordered(AsList(version))

(* As long as the monitor can read its own file, every new version is the  *)
(* one it replaces with the latest snapshot added and, once it is full,    *)
(* the oldest dropped: a failed write or a dead process costs its own      *)
(* snapshot, never an older one.  (README.md:213: "the newest 1000 cycles  *)
(* are kept".)                                                             *)
OnlyTheOldestLeaves ==
    [][misreads = 0 /\ file' # file /\ pc = "replace" /\ pc' = "sleep" =>
          /\ Len(file') > Len(AsList(file)) \/ Len(file') = MaxEntries
          /\ file'[Len(file')] = cycle
          /\ \A i \in 1..(Len(file') - 1) :
                file'[Len(file') - i] = AsList(file)[Len(AsList(file)) + 1 - i]]_vars

(* The refinement mapping: the file is the log, and a snapshot is pending  *)
(* from its collection to its rename or the failure of either.             *)
Log == INSTANCE SnapshotLog WITH
    Absent  <- NoFile,
    Keep    <- MaxEntries,
    Last    <- MaxCycles,
    log     <- file,
    stable  <- after,
    taken   <- cycle,
    pending <- IF pc \in {"load", "write", "sync", "replace"} THEN {cycle} ELSE {},
    misses  <- misreads,
    read    <- loaded

(* Reading, writing aside, syncing and renaming, with whatever fails or    *)
(* crashes between them, come to an atomic log: it never goes away or      *)
(* loses a newer snapshot to an error, holds none twice, and reverts only  *)
(* to a version it had, and only when the host died.                       *)
AtomicLog == Log!Spec

(* A snapshot collected after the last fault reaches the model, or a later *)
(* one does.                                                               *)
SnapshotArrives ==
    \A n \in 1..MaxCycles :
        pc = "load" /\ cycle = n /\ budget = 0
            ~> AsList(loaded) # <<>> /\ loaded[Len(loaded)] >= n
=============================================================================
