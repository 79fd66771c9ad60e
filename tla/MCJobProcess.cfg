CONSTANTS
    REGIONS <- MCREGIONS
    Labels <- MCREGIONS
    ALLOWED_PURPOSES <- MCALLOWED
    Purposes <- MCALLOWED
    RecordIds <- MCRecordIds
    AgentIds <- MCAgentIds
    Capabilities <- MCCapabilities
    Versions <- MCVersions
    GENESIS_HASH = GENESIS_HASH
    NoUri = NoUri
    NoVerdict = NoVerdict
    p1 = p1
    w1 = w1
    Runners = {p1}
    Runs = {w1}
    RunOf <- MCRunOf
    Registry <- bootstrap_default_registry
    Batch <- demo_batch
    Backend = "local"
    BucketOverwrite = TRUE
    MaxFaults = 2
    Environments <- MCEnvironments
    Cap = 2
SPECIFICATION ProcessSpec
INVARIANTS
    ProcessTypeOK
    CompleteHasArtifact
    NoInventedSummary
    SentWithCredential
    OneExporter
PROPERTIES
    UsableProcessReturns
