\* A reply buffer the header phase can fill to its last byte.
SPECIFICATION FairSpec
CONSTANTS
    Confs <- MCTwoConfs
    BufSize = 3
    MaxRedirects = 0
PROPERTIES
    KeepsReading
