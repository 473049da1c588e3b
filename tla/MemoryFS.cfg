SPECIFICATION SmallSpec
CONSTANTS
    a = a
    b = b
    Names <- TwoNames
    Dotted = {}
    NameHash <- Hashes
    TableSize = 2
    MaxInode = 4
    Paths <- SomePaths
    Fds = {3, 4}
    NoStream = NoStream
    NoName = NoName
    Dir = Dir
    MinCapacity = 4
    DoublingMax = 2
    MaxBytes = 4
    Bufs <- Pieces
    Counts <- Sizes
    Seeks <- Moves
INVARIANTS TypeOK TableSound LookupExact
PROPERTY Implements
VIEW WithoutResult
