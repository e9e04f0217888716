\* The reference of the round trip after nginx's own finalization.
SPECIFICATION Spec
CONSTANTS
    Confs <- MCTwoConfs
    BufSize = 12
    MaxRedirects = 0
INVARIANTS
    ReferenceReleased
