\* A container, within its limits or not, beside one whose evaluation always raises;
\* two faults among the retries, late requests and crashes.
SPECIFICATION FairSpec
CONSTANTS
    c1 = c1
    c2 = c2
    Limits <- MCLimits
    Containers = {c1, c2}
    Ignored = {}
    Poison = {c2}
    DryRun = FALSE
    MaxRetries = 2
    Interval = 1
    MaxAge = 2
    Stamps = {"naive", "none"}
    Loads <- BandLoads
    InitAlloc <- EitherBesideOne
    MinConfidence = 50
    MaxFaults = 2
INVARIANTS OneTargetPerCycle NoRatchet
PROPERTIES KeepsPromise NeverAway MovesAreInformed MovesAreDecided HotReachesCeiling CycleEnds SteadyDemandSettles
