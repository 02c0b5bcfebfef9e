SPECIFICATION System
CONSTANTS
    Entry = {1, 2, 3}
    Leaf = {1, 2, 3, 4}
    Batches <- MCBatches
    BatchSize = 3
    MaxFailures = 2
INVARIANTS
    TypeOK
    AnchorsAreOnChain
    RootsRebuilt
    WasteBounded
    VerdictIsRight
    ProofLeadsToAnchor
PROPERTIES
    AnchoredForGood
    BacklogDrains
