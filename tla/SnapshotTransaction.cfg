SPECIFICATION Spec
CONSTANTS
    Writers = {w1, w2}
    Readers = {r1, r2}
    Leased = {r1}
    Files = {checkpoint, population}
    MaxCommits = 3
INVARIANTS
    PointersAreWhole
    LeasedReaderNeverFails
    PruningSparesOneCommit
PROPERTIES
    ImplementsAtomicSnapshot
