SPECIFICATION Spec
CONSTANTS
    Nobody = Nobody
    providerOrg = providerOrg
    platformOrg = platformOrg
    Profiles = {p1, p2}
    Seeded = {p2}
    Sweep = Sweep
    Unknown = Unknown
    Execs = {e1, e2}
    Actors <- MCActors
    Concurrency = 2
    Attempts = 2
    MaxStalled = 1
    SweepLimit = 1
    FreshWindow = 0
    AgingWindow = 1
    MaxTime = 2
    MaxFaults = 1
INVARIANTS FreshnessIsSound
PROPERTIES EveryJobEnds SweepCatchesUp
