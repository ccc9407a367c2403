\* Two containers that come and go, one of them with probes that go wrong at will.
SPECIFICATION FairSpec
CONSTANTS
    Containers = {c1, c2}
    Flaky = {c1}
    Once = {c2}
    RetryLimit = 2
    MaxTicks = 2
    MaxLives = 2
    MaxFaults = 2
INVARIANTS UsageOfOneLife ZeroMeansIdle
PROPERTIES KeepsReporting
