SPECIFICATION Spec
CONSTANTS
    Keys = {k1}
    Values = {v1}
    NoValue = NoValue
    Passes = {p1, p2, empty}
    EmptyPass = empty
    MaxLevel = 3
    DefaultLevel = 2
    MaxFresh = 2
    NoFile = NoFile
    NoStore = NoStore
SYMMETRY Symmetry
INVARIANTS
    TypeOK
    MemoryMatchesDisk
    CrashKeepsAcked
    PowerCutKeepsAcked
    OldPassphraseOpensOldCopiesOnly
PROPERTIES
    RotatedKeyIsDead
