SPECIFICATION ServicesSpec
CHECK_DEADLOCK FALSE
CONSTANTS
    Observed = {"localRanking"}
    Tokens = {"old", "t1"}
    OldTokens = {"old"}
    Logins <- MCLogins
    ApiKeys = {"k"}
    Requests = {r1, r2}
    Arrivals <- MCArrivals
    SessionTTL = 1
    ActivityInterval = 1
    MaxSessionTime = 1
    Sources = {"s1", "s2"}
    LoginWindow = 2
    PerSourceLimit = 1
    GlobalLimit = 2
    MaxSources = 1
    MaxLoginTime = 4
    DaySlots = 4
    BackupSlot = 1
    RetryDelay = 1
    MaxRetries = 1
    BackupIntervals = {3, 4, 8}
    RetentionDays = 2
    MaxBackupTime = 12
    MaxBlindBackups = 1
    ErrorOwners = {"x", "y"}
    ErrorTimes = {1, 2}
    MaxRetryDelays = 2
    ErrorPageSize = 1
    MaxErrorEvents = 3
    Credentials = {"x", "y"}
    NoLabel = ""
    RecentWindow = 1
    BatchSlots = 1
    BucketSpan = 1
    HealthBuckets = 2
    EventAges = {0, 2}
    MaxRecentEvents = 2
    MaxRecentTime = 3
    HeaderAuths = {1, 2}
    MainLimit = "main"
    ExtraLimits = {"spark"}
    PendingLimit = 1
    MaxSnapshots = 2
    MaxHeaderTime = 2
    RankedKeys = {1}
    MonthDays = 3
    MaxRankedEvents = 2
    MaxRankedDay = 4
    Profiles = {"p"}
    MaxSequence = 2
    MaxRankingEvents = 2
    MaxRankingDay = 2
    MaxGiveUps = 1
    HourTicks = 2
    DayHours = 3
    MinuteTicks = 2
    RollingHours = {2}
    RollingDays = {2}
    LongDays = 2
    CustomHours = {2}
    MaxCustomDays = 3
    CacheSpan = 3
    UsageKinds <- MCUsageKinds
    ViewedKeys = {"k"}
    UsageAges = {0, 9}
    MaxUsageRows = 2
    TimedKinds <- MCTimedKinds
    TimedAges = {0, 17}
    SamplePriority <- MCSamplePriority
    MaxSamplePoints = 2
    HourRetentionDays = 3
    MaxTimedEvents = 3
    FirstLatencyTime = 29
    MaxLatencyTime = 30
    HeatmapBlocks = 3
    Midnights = {0, 7, 14, 20, 28, 35, 42}
    NominalDay = 7
    WeekDays = 2
    MonthLength = 3
    ActivityKinds <- MCActivityKinds
    ActivityOffsets <- MCActivityOffsets
    MaxActivityEvents = 2
    FirstActivityTime = 27
    MaxActivityTime = 29
    LiveWindows <- MCLiveWindows
    LiveBuckets = 2
    LiveReach = 7
    LiveKeys = {1}
    LiveAuthFiles = {1}
    LiveProviders = {1, 2}
    TopItems = 2
    MaxParticles = 2
    LiveKinds <- MCLiveKinds
    LiveAges = {0, 1, 2, 3, 4, 6, 7}
    MaxLiveRows = 3
    ListTimes = {1, 2}
    ListKinds <- MCListKinds
    ListFilters <- MCListFilters
    ListPageSizes = {1, 2}
    MaxListedRows = 3
    Readers = {"r1", "r2", "r3"}
    MaxFetches = 2
    LogEvents = {1, 2}
    LogTokens = {1, 2}
    TokenTTL = 1
    MaxLogTime = 2
    SeriesPoints = 2
    ListedDays = 1
    AuthFileIds = {"file", "both"}
    ProviderIds = {"provider", "both"}
    RawOnlySpan = 4
    QuotaSpans = {4, 9}
    QuotaResets <- MCQuotaResets
    UsageGroups <- MCUsageGroups
    PriceInputs <- MCPriceInputs
    RuleInputs <- MCRuleInputs
    PricedKinds <- MCPricedKinds
    RuleFields = {"tier", "key"}
    MaxSegment = 2
    MaxFinite = 100
    MaxPricedRows = 2
    MaxPriceChanges = 3
    UsedNames <- MCUsedNames
    PublicCatalogs <- MCPublicCatalogs
    FamilyOf <- MCFamilyOf
    Officials <- MCOfficials
    ProviderOrder <- MCProviderOrder
    PlanProviders = {"glm-plan"}
    MaxTokens = 3
    RawCounts <- MCRawCounts
INVARIANT MonthCountsDaysOnce
