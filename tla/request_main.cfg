\* One request through six kinds of location, up to two internal redirects;
\* the buffer has room for any exchange but the one with a full prelude.
SPECIFICATION FairSpec
CONSTANTS
    Confs <- MCConfs
    BufSize = 6
    MaxRedirects = 2
INVARIANTS
    TypeOK
    AdmitSound
    FaultFailsClosed
    RejectSound
    ChargedOnce
    HeadersReal
    WakeupOrFull
    HeldWhileAwaiting
    SingleResponse
    PasswordWiped
    PooledClean
PROPERTIES
    ContractSpec
    EventuallyResponded
    BodyIsRead
