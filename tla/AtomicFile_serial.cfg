SPECIFICATION SerialSpec
CONSTANTS
    Writers = {w1, w2}
    Contents = {c1, c2}
    Inodes = {i1, i2, i3}
    Chunks = 2
    NoInode = NoInode
    NoText = NoText
    Torn = Torn
SYMMETRY Symmetry
INVARIANTS TypeOK PathNeverTorn LeftoverTmpHarmless
PROPERTY ImplementsCell
