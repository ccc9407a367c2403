\* The same, asked what the comment on the cache says.
SPECIFICATION Spec
CONSTANTS
    Threads = {1, 2, 3}
    Wait = 1
    MaxTime = 9
    CacheTime = 3
    ProbeTimeout = 2
INVARIANTS OneForkPerInterval
