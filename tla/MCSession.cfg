CONSTANTS
    Keys <- MCKeys
    UnknownKey = "engine"
    Values <- MCValues
    Default <- MCDefault
    Settings <- MCSettings
    Arguments <- MCArguments
    MaxContexts = 2
    Nested = TRUE
    Urls <- MCUrls
    Scheme <- MCScheme
    Directories <- MCDirectories
    Lists <- MCLists
    Inputs <- MCInputs
    NoArchive = "none"
    Published <- MCPublished
    MaxOutputs = 2
    MaxChunks = 2
    Calls <- MCCalls
    Providers <- MCProviders
    Targets <- MCTargets
    TargetDims <- MCTargetDims
    Landmarks <- MCLandmarks
    MaxTransforms = 2
    Budgets <- MCBudgets
SPECIFICATION Spec
CHECK_DEADLOCK FALSE
INVARIANTS
    OutputsAreWhole
    LandmarksKept
PROPERTIES
    ScopedSpec
    StaleOnlyFromCache
