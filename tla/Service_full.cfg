SPECIFICATION FairSpec
CONSTANTS
    Requests = {r1, r2, r3}
    Holders = {r1}
    Keys = {k1}
    Values = {v1}
    NoValue = NoValue
    Backlog = 1
    MaxKills = 0
    None = None
PROPERTY EveryCallReturns
