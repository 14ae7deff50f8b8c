SPECIFICATION LRUFairSpec
CONSTANTS
    k1 = k1
    k2 = k2
    k3 = k3
    CacheKeys = {k1, k2, k3}
    KeyLen <- Lengths
    Sizes = {0, 1, 2, 6}
    MaxBytes = 5
INVARIANTS BytesCounted ListIsRecency
PROPERTY AddEnds
