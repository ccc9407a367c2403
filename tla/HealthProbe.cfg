\* Three threads, time for several expiries of the cache.
SPECIFICATION Spec
CONSTANTS
    Threads = {1, 2, 3}
    Wait = 1
    MaxTime = 9
    CacheTime = 3
    ProbeTimeout = 2
PROPERTIES FreshEnough ForksSpaced
