SPECIFICATION SerialSpec
CONSTANTS
    Imports = {i1}
    Setters = {s1}
    Execs = {e1}
    Names = {a, b}
    RawKeys = {r}
    MaxRuns = 3
    None = None
SYMMETRY Symmetry
INVARIANTS StoresOnlyTried UnfitImportsNothing
PROPERTIES ReportIsTrue NoSilentOverwrite ExecSeesImportInOrder
