CONSTANTS
    REGIONS <- MCREGIONS
    Labels <- MCLabels
    ALLOWED_PURPOSES <- MCALLOWED
    Purposes <- MCPurposes
    RecordIds <- MCRecordIds
    ClauseLists <- MCClauseLists
    Undecided = Undecided
SPECIFICATION Spec
\* the walk ends with its decision, or with the exception
CHECK_DEADLOCK FALSE
INVARIANTS
    WalkComputesEvaluate
    NeverAllowedAcross
    ResidencyClauseOnlyNames
    PurposeVetoedFirst
