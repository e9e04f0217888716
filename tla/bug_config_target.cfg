\* A parent and a child with a ratelimit_pass each.
SPECIFICATION Spec
CONSTANTS
    z1 = z1 z2 = z2 redisA = redisA redisB = redisB variable = variable
    database = database db0 = db0 db1 = db1 noDatabase = noDatabase
    None = None
    Depth = 3
    Names <- MCNames
    ZoneArgs <- MCZoneArgs
    ApplyArgs <- MCApplyArgs
    Quantities = {2}
    Targets <- MCTargets
    Variables <- MCVariables
    Slots <- MCSlots
    Values <- MCValues
    Default <- MCDefault
    MaxSafe = 12
    MaxDirectives = 4
INVARIANTS
    OwnTargetWins
