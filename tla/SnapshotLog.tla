------------------------------ MODULE SnapshotLog ------------------------------
(***************************************************************************)
(* What the export file promises its readers, with nothing of temporary    *)
(* files, fsync and rename: "the newest 1000 cycles are kept, written      *)
(* through a temporary file and renamed into place so a crash cannot       *)
(* truncate it" (README.md:213-214).  The log changes as a whole.  A       *)
(* snapshot is added right after it was taken or never; what it pushes out *)
(* is the oldest; and a crash of the host brings back a version the log    *)
(* had.  A writer that could not read the log may start it over.           *)
(***************************************************************************)
EXTENDS Integers, Sequences

CONSTANTS
    Absent,     \* there is no log
    Keep,       \* how many snapshots it holds
    Last        \* the last snapshot that is taken

VARIABLES
    log,        \* what a reader finds
    stable,     \* the versions a crash of the host may bring back
    taken,      \* the number of snapshots taken
    pending,    \* the snapshot taken and neither added nor given up, if any
    misses,     \* how often the writer could not read the log
    read        \* what the reader found last

vars == <<log, stable, taken, pending, misses, read>>

Entries(version) == IF version = Absent THEN <<>> ELSE version

(* The newest Keep of them. *)
Newest(list) ==
    SubSeq(list, IF Len(list) > Keep THEN Len(list) - Keep + 1 ELSE 1, Len(list))

Init ==
    /\ log = Absent
    /\ stable = {Absent}
    /\ taken = 0
    /\ pending = {}
    /\ misses = 0
    /\ read = Absent

Take ==
    /\ pending = {}
    /\ taken < Last
    /\ taken' = taken + 1
    /\ pending' = {taken + 1}
    /\ UNCHANGED <<log, stable, misses, read>>

(* The writer finds a log it cannot read, and takes it for empty. *)
Miss ==
    /\ pending # {} /\ log # Absent
    /\ misses' = misses + 1
    /\ UNCHANGED <<log, stable, taken, pending, read>>

Add ==
    /\ pending # {}
    /\ \E n \in pending :
        \/ log' = Newest(Append(Entries(log), n))
        \/ misses > 0 /\ log' = <<n>>
    /\ stable' = stable \cup {log'}
    /\ pending' = {}
    /\ UNCHANGED <<taken, misses, read>>

GiveUp ==
    /\ pending' = {}
    /\ UNCHANGED <<log, stable, taken, misses, read>>

(* The host dies, and the reader with it. *)
Revert ==
    /\ log' \in stable
    /\ stable' = {log'}
    /\ pending' = {}
    /\ read' = Absent
    /\ UNCHANGED <<taken, misses>>

Settle == stable' = {log} /\ UNCHANGED <<log, taken, pending, misses, read>>

Read == read' = log /\ UNCHANGED <<log, stable, taken, pending, misses>>

Next == Take \/ Miss \/ Add \/ GiveUp \/ Revert \/ Settle \/ Read

Spec == Init /\ [][Next]_vars
=============================================================================
