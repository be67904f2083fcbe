CONSTANTS
    c1 = c1
    c2 = c2
    Contents <- MCContents
    SizeOf <- MCSizeOf
    Torn = Torn
    None = None
    Documents <- MCDocuments
    Environments <- MCEnvironments
    SizeBits = 3
    MaxEdits = 1
    MaxLaunches = 2
SYMMETRY Symmetry
SPECIFICATION Spec
INVARIANTS
    NoPartialDatabase
    OffersGenuine

    
