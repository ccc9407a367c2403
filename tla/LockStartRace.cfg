\* Two instances starting together, without any fault.
SPECIFICATION Spec
CONSTANTS
    Procs = {p1, p2}
    None = None
    Dead = Dead
    MaxFaults = 0
INVARIANTS MutualExclusion
