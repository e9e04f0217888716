\* Every reply that is one element away from the contract, in all pieces.
SPECIFICATION Spec
CONSTANTS
    Replies <- MCReplies
    MaxInt = 27
INVARIANTS
    TypeOK
    
    ContractAccepted
    Decides
