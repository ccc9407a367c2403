\* Three instances, started, stopped and killed at any moment.
SPECIFICATION FairSpec
CONSTANTS
    Procs = {p1, p2, p3}
    None = None
    Dead = Dead
    MaxFaults = 3
INVARIANTS OneRunner RunnerIsNamed
PROPERTIES NoFalseRefusal StartsEnd
