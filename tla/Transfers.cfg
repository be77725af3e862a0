SPECIFICATION Spec
CONSTANTS
    o1 = o1
    n1 = n1
    n2 = n2
    Tasks = {o1, n1, n2}
    Overwrites = {o1}
    MaxTasks = 2
    MaxActive = 2
    MaxSize = 1
    Unknown = Unknown
    Nobody = Nobody
SYMMETRY Interchangeable
INVARIANTS
    TableInv
    ReportsAreTrue
