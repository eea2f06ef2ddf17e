SPECIFICATION Spec
CONSTANTS
    m1 = m1
    m2 = m2
    bad = bad
    Messages <- Good
    Bad = {}
    MaxPull = 2
    MaxBatch = 2
    ExtensionsFail = TRUE
INVARIANTS AckedIsAccounted

