SPECIFICATION Spec
CONSTANTS
    Launches = {l1, l2}
    HostMachine = 62
    SupportedLoaders <- MCLoaders
    SystemPaths <- MCSystemPaths
    LibraryPath <- MCLibraryPath
    GlobalPreload = "preload"
    MaxLoaderEntries = 4
    MaxDependencyEdges = 4
    Deployed <- MCDeployed
    Updates <- MCUpdates
    Target <- MCTarget
    Executable = "probe"
    Directory = "cwd"
    Arguments <- MCArguments
    EnvPath = "env"
    ResidentLimit = 6
    MaxArtifacts = 8
    MaxArtifactSize = 2
    MaxTotalSize = 8
    MaxChainDepth = 2
    MaxChanges = 1
    MaxCrashes = 1
SYMMETRY Symmetry
INVARIANTS
    RunsWhatWasAdmitted
    InheritsOwnDescriptors
    NoOrphanHelper
    ClosureIsLoaded
