SPECIFICATION Spec
CONSTANTS
    Requests = {r1, r2, r3}
    Holders = {}
    Keys = {k1}
    Values = {v1}
    NoValue = NoValue
    Backlog = 2
    MaxKills = 1
    None = None
SYMMETRY Symmetry
PROPERTIES ImplementsKeyValue HandledInOrder
