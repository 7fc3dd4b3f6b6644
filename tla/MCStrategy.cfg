SPECIFICATION MCSpec
CONSTANTS
    DayLength = 4
    HorizonStart = 3
    HorizonEnd = 1
    SlotLength = 1
    LateEvening = 3
    Morning = 1
    Fridays = {}
    FullCycleCeiling = 4
    SettingsChoices <- MCSettings
    GridSamples <- MCGrid
    BatteryPowers <- MCPower
    SocLevels = {1,3}
    Voltages = {TRUE}
    HeartbeatAges = {0}
    Irradiations = {2}
    PriceTables <- MCPrices
    Profiles <- MCProfiles
    Commands <- MCCommands
    RecalculateHour = 3
    FirstTime = 3
    LastTime = 5
    MaxWaiting = 1
    MaxWrites = 1
    MaxRare = 2
    Scenes = {"telemetry", "overrides", "reload", "night"}
INVARIANTS TypeOK WireIsTheDecision RowFollowsOverride ScheduleIsForThePlan ExportNeverDeepens
PROPERTIES KeepsPromise FloorGlides ExemptionIsForOverrides
CHECK_DEADLOCK FALSE
