CONSTANTS
    Requests <- MCRequests
    Files <- MCFiles
    Envs <- MCEnvs
    Inputs <- MCInputs
    Texts <- MCTexts
    Bytes <- MCBytes
    Broken <- MCBroken
    MinSourceBytes <- MCMinSourceBytes

SPECIFICATION Spec

INVARIANTS
    ContractDecides
    ExecutedIsEntitled
    RecordedForTenant
    ModuleIsOwn

CHECK_DEADLOCK FALSE
