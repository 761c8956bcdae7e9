SPECIFICATION Spec
CONSTANTS
    Inits = {}
    Daemons = {d1, d2}
    Sockets = {s1, s2, s3}
    NoSocket = NoSocket
    PlainFile = PlainFile
    Tokens = {t1, t2}
    NoToken = NoToken
    NoStore = NoStore
    MaxWrites = 1
SYMMETRY Symmetry
INVARIANT AckedIsKept
