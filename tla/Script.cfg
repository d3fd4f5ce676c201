CONSTANTS
    Literal <- MCLiteral
    Lookups <- MCLookups
    Internal <- MCInternal
    Urls <- MCUrls
    AllowLists <- MCAllowLists
    OpLimit = 2
    MAX_REDIRECTS = 3
    S3Configs <- MCS3Configs
    VirtualHost <- MCVirtualHost
    Keys <- MCKeys
    CallKeys = {0, 2}
    KeyPrefixes <- MCPrefixes
    Sizes = {1, 3}
    Lifetimes <- MCLifetimes
    PageSize = 2
    U64_MAX = 5
    S3Limit = 2
    MaxWrites = 1
    StdUnits <- MCUnits
    Replaceable <- MCReplaceable
    MaxTurns <- MCTurns
    Currencies <- MCCurrencies
    EXP <- MCEXP
    Default <- MCDefault
    Amounts <- MCAmounts
    Scalars <- MCScalars
    Percents <- MCPercents
    WeightLists <- MCWeightLists
    MaxScale = 4
    MaxMantissa = 79228
    MaxRows = 4
    MaxOps = 4
    MILLIS_PER_SECOND = 2
    SECONDS_PER_MINUTE = 2
    MINUTES_PER_HOUR = 2
    HOURS_PER_DAY = 4
    Zones <- MCZones
    Names <- MCNames
    FirstYear = 1995
    LastYear = 2007
    LastTextYear = 2004
    Texts <- MCTexts
    PartsGiven <- MCParts
    Deltas <- MCDeltas
    Counts <- MCCounts
    MaxCalls = 2

SPECIFICATION ProgramSpec

INVARIANTS
    SplitsKeepWorth
    AggregatesAgree
    PeriodsTile
    ShiftsKeepTheCalendar
    ReadingsAgree
    ConnectsWhereAllowed
    HttpMetered
    TotalsHold
    SignedWithinPolicy
    SurfaceSound
PROPERTIES
    BudgetsKept

CHECK_DEADLOCK FALSE
