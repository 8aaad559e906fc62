SPECIFICATION Spec
SYMMETRY CallSymmetry
CONSTRAINT SecondMishapCompounds
CONSTANTS
    Owners = {o1, o2}
    Digests = {d1}
    Calls = {c1, c2}
    MaxRecords = 3
    MaxMishaps = 1
INVARIANTS
    TypeOK
    LockDiscipline
    RecordsReadable
    SingleChild
    SourceStaysReadable
PROPERTIES
    NewestSparedUnlessOvertaken
