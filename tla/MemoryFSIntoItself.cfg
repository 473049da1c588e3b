SPECIFICATION Spec
CONSTANTS
    a = a
    b = b
    Names <- TwoNames
    Dotted = {b}
    NameHash <- Hashes
    TableSize = 2
    MaxInode = 4
    Paths <- SomePaths
    Fds = {}
    NoStream = NoStream
    NoName = NoName
    Dir = Dir
    MinCapacity = 3
    DoublingMax = 2
    MaxBytes = 3
    Bufs = {}
    Counts = {}
    Seeks = {}
INVARIANT Rooted
