SPECIFICATION BoundedSpec
CONSTANTS
    Keys = {1, 2, 3, 4, 5, 6, 7, 8}
    Hash <- Hashes
    Values = {11}
    Null = Null
    NoKey = NoKey
    MinSize = 4
INVARIANTS TypeOK ChainsSound RehashFits
PROPERTIES Implements SetExact
