SPECIFICATION Spec
CONSTANTS
    Dir = Dir
    Default = Default
    Text = Text
    Dotted = {".b"}
    None = None
    UserPaths <- SomePaths
    MaxClicks = 3
    MaxDepth = 4
INVARIANTS TypeOK NoResurrection FailureLeavesNothing
