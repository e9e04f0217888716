\* A location without a database after one with a database.
SPECIFICATION Spec
CONSTANTS
    r1 = r1 r2 = r2 r3 = r3 c1 = c1 c2 = c2
    guarded = guarded plain = plain variable = variable
    redisA = redisA redisB = redisB secret = secret
    nameA = nameA NAMEA = NAMEA nameB = nameB other = other
    None = None
    Requests <- MCRequests
    Connections <- MCConnections
    Locations <- MCLocations
    Servers <- MCServers
    Hosts <- MCHosts
    Target <- MCTarget
    Password <- MCPassword
    Database <- MCDatabase
    Upstreams <- MCUpstreams
    Lower <- MCLower
SYMMETRY Symmetric
INVARIANTS
    CountsIsolated
