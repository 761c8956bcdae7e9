SPECIFICATION Spec
CONSTANTS
    KeyOrder <- MCKeyOrder
    Matching <- MCMatching
    MaxChanges = 1
    MaxQueued = 1
    None = None
INVARIANTS
    TreeIsComplete
    ShownIsSelected
    ActsOnTheKeyShown
PROPERTIES
    AddAsks
    SelectionLands
