SPECIFICATION FairSerialSpec
CONSTANTS
    Inits = {i1}
    Daemons = {d1, d2}
    Sockets = {s1, s2, s3}
    NoSocket = NoSocket
    PlainFile = PlainFile
    Tokens = {t1, t2}
    NoToken = NoToken
    NoStore = NoStore
    MaxWrites = 2
INVARIANTS ServingIsReachable AckedIsKept ServedTokenIsCurrent StuckStoreIsEmpty
PROPERTIES RestartServes
