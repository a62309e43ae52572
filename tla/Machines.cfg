SPECIFICATION Spec
CONSTANTS
    t1 = t1
    t2 = t2
    t3 = t3
    s1 = s1
    s2 = s2
    Purposes <- MCPurposes
    LlmAttempts = 2
    LlmThreshold = 2
    LlmCooldown = 2
    RateCooldown = 1
    MaxRetryAfter = 1
    DayLength = 2
    LlmTime = 2
    LlmRestarts = 1
    SourceKeys <- MCSourceKeys
    Builtin <- MCBuiltin
    RssLabels <- MCRssLabels
    SourceThreshold = 2
    SourceCooldown = 2
    SourceClock = 4
    CacheKeys <- MCCacheKeys
    Callers <- MCCallers
    Ttl = 2
    QuoteCooldown = 3
    MaxFetch = 1
    QuoteClock = 8
    Texts <- MCTexts
    Likeness <- MCLikeness
    Similar = 5
    Sources <- MCSources
    Feeds <- MCFeeds
    Mode = "active"
    Limit = 2
    Slots = 1
    Window = 1
    MaxEvents = 2
    ReportedCooldown = 1
    RecapBucket = 2
    RecapMaxAge = 1
    PendingLimit = 3
    MaxCycles = 2
    MaxRestarts = 1
    Ids <- MCIds
    RetentionDays = 0
    PendingMax = 1
    SampleMax = 2
    MinLabels = 1
    LearnDays = 1
    MinTrain = 0
    MinTest = 1
    SearchTrials = 2
    MaxScore = 2
    Prevalence = 1
    MaxLines = 4
    LastDay = 1
    LearnRestarts = 1
    Listings <- MCListings
    Codes <- MCCodes
    MaxBuilds = 3
    MaxDamage = 1
    Markets <- MCMarkets
    Refreshes <- MCAlone
    Retention = 2
    Lookback = 2
    DaysPerRequest = 1
    MaxCalls = 2
    MinArticles = 2
    DenseDays = 1
    MinTotal = 2
    Counts = {1, 2}
    Values = {0, 1}
    OldFile <- MCOldFile
    MaxDay = 3
    DigestRestarts = 1
    Articles <- MCArticles
    Url <- MCUrl
    Text <- MCText
    Published <- MCPublished
    Junk = {}
    WatchHours = 1
    PackItems = 2
    PageClock = 2
    MaxWrites = 2
    Requests = {1, 2}
    Scheduled = {3, 4}
    PoolWorkers = 2
    MaxHighlights = 2
    MinHighlights = 1
    OneIn = 2
    MaxHeadlines = 3
    WorthACall = 2
    MaxHeldHours = 12
    AlwaysPublish = {"KR"}
    FallbackHeadlines = 2
    RowsRead = 2
    SampleSize = 2
    SampleExploring = 1
    Alike <- MCAlike
    Queues <- MCQueues
    Situations <- MCSituations
    Earlier <- MCEarlier
    AnswerPairs <- MCAnswers
INVARIANTS
    FailuresAreKept
    NewsIsOffered
    
    ReaderIsServed
    ReportIsHonest
 
CHECK_DEADLOCK FALSE
