\* Every configuration of up to five directives on three levels.
SPECIFICATION Spec
CONSTANTS
    z1 = z1 z2 = z2 redisA = redisA redisB = redisB variable = variable
    database = database db0 = db0 db1 = db1 noDatabase = noDatabase
    None = None
    Depth = 3
    Names <- MCNames
    ZoneArgs <- MCZoneArgs
    ApplyArgs <- MCApplyArgs
    Quantities = {2}
    Targets <- MCTargets
    Variables <- MCVariables
    Slots <- MCSlots
    Values <- MCValues
    Default <- MCDefault
    MaxSafe = 12
    MaxDirectives = 5
INVARIANTS
    TypeOK
    
    LimitExact
    NearestWins
    ZoneOfName
    TargetInForce
