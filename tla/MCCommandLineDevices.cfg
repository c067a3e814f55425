CONSTANTS
    AnyDepth = AnyDepth
    None = None
    Nodes <- MCNodes
    Top = "top"
    Parent <- MCParent
    Level <- MCLevel
    Entry <- MCEntry
    Stuck = {"c", "o", "m", "mnt"}
    Unreadable = {"locked"}
    Paths <- MCPaths
    Object <- MCObject
    RealPath <- MCRealPath
    RootPath = "/"
    Home = "/root"
    Critical = {"/", "/etc", "/bin", "/root"}
    PresetTable <- MCPresets
    Aliases <- MCAliases
    Commands <- TwoDevices
SPECIFICATION Spec
INVARIANTS BoundariesKept
