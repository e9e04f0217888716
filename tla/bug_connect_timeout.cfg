\* Outages under "ratelimit_on_error allow".
SPECIFICATION Spec
CONSTANTS
    Confs <- MCOpenConfs
    BufSize = 12
    MaxRedirects = 0
INVARIANTS
    OutageFailsOpen
