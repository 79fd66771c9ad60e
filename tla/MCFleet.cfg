CONSTANTS
    REGIONS <- MCREGIONS
    Labels <- MCLabels
    ALLOWED_PURPOSES <- MCALLOWED
    Purposes <- MCPurposes
    RecordIds <- MCRecordIds
    AgentIds <- MCAgentIds
    Capabilities <- MCCapabilities
    Versions <- MCVersions
    GENESIS_HASH = GENESIS_HASH
    Rows <- MCRows
    NewRegistrations <- MCNewRegistrations
    MaxCalls = 2
SPECIFICATION Spec
\* the calls are bounded
CHECK_DEADLOCK FALSE
INVARIANTS
    TypeOK
    ResidencyHeld
    AllowsAreRuns
    RoutedCallsAreLogged
    DiscoverRoutesToAllowed
