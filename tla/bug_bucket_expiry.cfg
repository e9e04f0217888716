\* Two locations with different bursts on one token bucket.
SPECIFICATION Spec
CONSTANTS
    Zones <- MCSharedBucket
    TPS = 1
    MaxTime = 6
INVARIANTS
    BucketRefillsAtRate
