\* Three entries kept of five snapshots; failed reads and writes, crashes of monitor and host.
SPECIFICATION FairSpec
CONSTANTS
    NoFile = NoFile
    Torn = Torn
    MaxEntries = 3
    MaxCycles = 5
    MaxFaults = 3
INVARIANTS TypeOK NeverTorn HistoryInOrder
PROPERTIES AtomicLog OnlyTheOldestLeaves SnapshotArrives
