\* Two threads, more clients than the table holds, time for two windows.
SPECIFICATION Spec
CONSTANTS
    Threads = {t1, t2}
    Wait = 1
    MaxTime = 5
    Clients = {c1, c2, c3}
    Local = local
    Limit = 2
    Window = 3
    Ceiling = 1
SYMMETRY Symmetry
INVARIANTS WindowKept TableBounded
PROPERTIES HonestRetry RefusalsEarned
