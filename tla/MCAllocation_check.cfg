SPECIFICATION FairSpec
CONSTANTS
    Creations = {1, 2}
    Owners = {11, 12}
    Scenarios <- MCScenarios
    Codes <- MCCodes
    Config <- MCConfig
    Platform <- MCPlatform
    ArchText <- MCArch
    PluginLists <- MCPluginLists
    Texts <- MCTexts
    Wildcards <- MCWildcards
    Ports = {1, 2, 3}
    Files = {0, 1, 2, 3}
    Preset = 2
    JmEnv <- Here
    BuiltIn <- MCBuiltIn
    MaxFactory = 3
INVARIANTS
    OwnObject
    LookupsExact
PROPERTIES
    CreationEnds
CHECK_DEADLOCK FALSE
