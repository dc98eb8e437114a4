SPECIFICATION Spec
CONSTANTS
    a = a
    b = b
    x = x
    Names <- MCNames
    Paths <- MCPaths
    Kinds <- MCKinds
    MaxObjects = 2
    MaxStarts = 2
    MaxRequests = 3
    MaxSaved = 4
    MaxMeanwhile = 2
SYMMETRY Symmetry
CHECK_DEADLOCK FALSE
INVARIANTS
    TreeExact
    ObjectsUnshared
PROPERTIES
    ListedStays
    SavedAsListed
