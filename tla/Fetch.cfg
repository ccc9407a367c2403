\* Three containers, two slots, two failing batches open a breaker; faults enough for
\* two breakers, and a healthy API in the end.
SPECIFICATION FairSpec
CONSTANTS
    Containers = {c1, c2, c3}
    MaxConcurrent = 2
    RetryCount = 2
    Threshold = 2
    Timeout = 3
    Interval = 2
    MaxFaults = 8
INVARIANTS BreakerConsistent OpenMeansQuiet SlotsConserved ConfigMeansHealthy
PROPERTIES OneStrikePerFetch BatchEnds Recovers
