\* Five operations on two directories of one file or directory, or on two files.
SPECIFICATION FsSpec
CONSTANTS
    Names = {"d", "e", "x"}
    Paths <- MCPaths
    Hosts <- MCHosts
    Modes = {"CopyOnWrite", "FuseOnly"}
    MaxOps = 5
    Nil = Nil
INVARIANTS
    ShowsFiles
    ListedIsFound
