\* Typing and editing by hand are bounded, so behaviours end.
SPECIFICATION Spec
CONSTANTS
    Parts = {"trust", "edit", "dotenv"}
    Me = Me
    Root = Root
    other = other
    Others = {other}
    g1 = g1
    g2 = g2
    Gids = {g1, g2}
    shared = shared
    GroupNames = {Me, shared}
    Worlds <- MCWorlds
    Project = Project
    dev = dev
    prod = prod
    Envs = {dev, prod}
    A = A
    B = B
    PATH = PATH
    Names = {A, B, PATH}
    Foreign = Foreign
    DeniedNames = {PATH}
    Nothing = Nothing
    EmptyMap = EmptyMap
    Requests <- MCRequests
    Samples <- MCSamples
    NewLines <- MCNewLines
    Quotable <- NotEnvs
    MaxIndent = 4
    MaxEdits = 1
    Keys = {K, L}
    MaxChars = 4
    MaxLines = 2
INVARIANTS AcceptedIsMine PrivateIsAccepted CreatedIsReadable EditSucceeds QuotedReadsBack AcceptedIsWhole
PROPERTY EditOnlyAdds
CHECK_DEADLOCK FALSE
