\* Two locations with different bursts on one arrival time.
SPECIFICATION Spec
CONSTANTS
    Zones <- MCSharedGcra
    TPS = 4
    MaxTime = 4
INVARIANTS
    RemainingIsNatural
