SPECIFICATION PoolFairSpec
CONSTANTS
    Workers = 2
    MaxUrls = 3
INVARIANTS
    PoolTypeOK
    GroupIsSound
PROPERTIES
    SmallGroupEnds
