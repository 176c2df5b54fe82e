\* Two requests at work and a third that waits.
SPECIFICATION FairSpec
CONSTANTS
    b1 = b1
    b2 = b2
    b3 = b3
    Bufs = {b1, b2, b3}
    Dirs <- MCDirs
    NUM = 6
    IdxRange = 12
    None = None
INVARIANTS
    DescriptorsConserved
    OnePlacePerRequest
    NoLostWakeup
PROPERTIES
    Transferred
    RequestReturns
VIEW View
