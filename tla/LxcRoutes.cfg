\* Four requests, two at a time: one source, one clone id, two snapshot names.
SPECIFICATION FairSpec
CONSTANTS
    Threads = {t1, t2}
    Source = src
    Clones = {c1}
    Names = {c1, backup}
    MaxRequests = 4
    MaxFaults = 2
INVARIANTS
    NothingSilent
    GrowthAccounted
PROPERTIES
    OwnSnapshotOnly
    OnlyTheStopperDestroys
    EveryRequestEnds
CHECK_DEADLOCK FALSE
