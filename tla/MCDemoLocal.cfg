CONSTANTS
    REGIONS <- MCREGIONS
    Labels <- MCREGIONS
    ALLOWED_PURPOSES <- MCALLOWED
    Purposes <- MCALLOWED
    RecordIds <- MCRecordIds
    AgentIds <- MCAgentIds
    Capabilities <- MCCapabilities
    Versions <- MCVersions
    GENESIS_HASH = GENESIS_HASH
    NoUri = NoUri
    NoVerdict = NoVerdict
    d1 = d1
    d2 = d2
    Demos = {d1, d2}
    MaxMains = 4
    MaxKills = 1
    Cap = 2
SPECIFICATION Spec
INVARIANTS
    TypeOK
    NoAssertionFails
    FileIsTheBatch
PROPERTIES
    OnlySharersRaise
