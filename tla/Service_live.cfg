SPECIFICATION FairSpec
CONSTANTS
    Requests = {r1, r2}
    Holders = {r1}
    Keys = {k1}
    Values = {v1}
    NoValue = NoValue
    Backlog = 2
    MaxKills = 1
    None = None
PROPERTIES EveryCallReturns SentIsServed
