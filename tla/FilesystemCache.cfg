SPECIFICATION Spec
CONSTANTS
    Dir = Dir
    Default = Default
    Text = Text
    Dotted = {".b"}
    None = None
    UserPaths <- SomePaths
    MaxClicks = 2
    MaxDepth = 4
PROPERTIES ModuleKept
