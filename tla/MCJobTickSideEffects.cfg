CONSTANTS
    REGIONS <- MCREGIONS
    Labels <- MCREGIONS
    ALLOWED_PURPOSES <- MCALLOWED
    Purposes <- MCALLOWED
    RecordIds <- MCRecordIds
    AgentIds <- MCAgentIds
    Capabilities <- MCCapabilities
    Versions <- MCVersions
    GENESIS_HASH = GENESIS_HASH
    NoUri = NoUri
    NoVerdict = NoVerdict
    p1 = p1
    p2 = p2
    p3 = p3
    w1 = w1
    Runners <- TwoRunners
    Runs = {w1}
    RunOf <- SharedRun
    Registry <- bootstrap_default_registry
    Batch <- demo_batch
    Backend = "gcp"
    BucketOverwrite = FALSE
    MaxFaults = 0
    Cap = 2
SPECIFICATION Spec
INVARIANT SideEffectOnce
