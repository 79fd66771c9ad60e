CONSTANTS
    REGIONS <- MCREGIONS
    Labels <- MCLabels
    ALLOWED_PURPOSES <- MCALLOWED
    Purposes <- MCPurposes
    RecordIds <- MCRecordIds
    AgentIds <- MCAgentIds
    Capabilities <- MCCapabilities
    Versions <- MCVersions
    GENESIS_HASH = GENESIS_HASH
    Rows <- MCRows
    NewRegistrations <- MCVersionRegistrations
    MaxCalls = 1
SPECIFICATION Spec
\* the calls are bounded
CHECK_DEADLOCK FALSE
INVARIANT LatestIsHighest
