SPECIFICATION MCSpec
CONSTANTS
    Scenes = {"ingestion"}
    Settings <- MCSettings
    SocLevels = {20, 50}
    BatteryPowers <- MCBatteryPowers
    GridPowers <- MCGridPowers
    Overrides <- MCOverrides
    Irradiations = {3}
    Day = 2
    LastTime = 2
    MaxModes = 1
    Topics = {"battery", "grid", "settings"}
    MaxConnections = 3
    RequiredTopics = {"delivered", "returned", "timestamp"}
    DeliveredTopic = "delivered"
    ReturnedTopic = "returned"
    MeterReadings = {0, 1}
    Orders <- MCOrders
    Updates <- MCUpdates
    FirstSettings <- MCFirstSettings
    Ranges <- MCRanges
    SocCache = {2}
    MaxPending = 2
    MaxSent = 2
    MaxQueue = 2
    LastHour = 1
    StatusTopics = {"soc", "mode"}
    RequiredStatus = {"soc"}
    PriceDays = {"today"}
    MaxPublished = 2
    MaxInFlight = 2
    MaxReconnects = 2
    MaxMessages = 3
    ListLimit = 2
    Telemetries <- MCTelemetries
    None <- MCNone
    Deadband = 25
    MaxSamples = 3
    MaxReadings = 1
    LastRowMinute = 1
    SlotPlans <- MCSlotPlans
    WattsPerPercent = 100
    PlanStale = 3
    Horizon = 1
    MaxPlans = 3
    LastSlot = 4
    Configured = 1
    DefaultInterval = 2
    Intervals = {1, 2}
    Payloads = {0}
    Grace = 1
    FixedLimits = {2}
    ReadTime = 1
    Answers <- MCAnswers
    Targets = {1}
    LastInstant = 4
    MaxTokens = 3
    LogTargets <- MCLogTargets
    Setpoints = {1}
    PageSizes = {1, 2}
    MostRows = 1
    LastMinute = 1
    MaxRows = 3
    Requests = {1, 2}
    SettingKeys = {1, 2, 3}
    TradeKeys = {1, 2}
    TextKeys = {1}
    DebugKey = 3
    Changes <- MCChanges
    Limits <- MCLimits
    Default <- MCDefault
    DryadRequests = {1, 2}
    DatabaseSources = {"curves"}
    StatusSources = {"soc"}
    MaxAges <- MCMaxAges
    ItemSources <- MCItemSources
    CacheTime = 1
    CurveSource = "curves"
    Imports = {2}
    Tariffs <- MCTariffs
    DayLength = 2
    ThresholdPercent = 10
    LookAhead = 2
    LastInstant1 = 2
INVARIANT SamplesGoOn
CHECK_DEADLOCK FALSE
