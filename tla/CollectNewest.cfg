\* Two containers; nothing goes wrong.
SPECIFICATION Spec
CONSTANTS
    Containers = {c1, c2}
    Flaky = {}
    Once = {}
    RetryLimit = 2
    MaxTicks = 2
    MaxLives = 2
    MaxFaults = 0
INVARIANTS EveryoneIsCurrent
