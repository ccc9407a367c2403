\* The timestamps the monitor writes carry a time zone (lxc_monitor.py:435).
SPECIFICATION FairSpec
CONSTANTS
    c1 = c1
    c2 = c2
    Limits <- MCLimits
    Containers = {c1}
    Ignored = {}
    Poison = {}
    DryRun = FALSE
    MaxRetries = 2
    Interval = 1
    MaxAge = 1
    Stamps = {"aware"}
    Loads <- BusyOrCalm
    InitAlloc <- OneInside
    MinConfidence = 50
    MaxFaults = 0
PROPERTIES StoredMetricsDriveScaling
