SPECIFICATION Spec
SYMMETRY CallSymmetry
CONSTANTS
    Owners = {o1}
    Digests = {d1}
    Calls = {c1, c2}
    MaxRecords = 2
    MaxMishaps = 0
PROPERTIES
    NewestNotCleaned
