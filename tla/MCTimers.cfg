SPECIFICATION MCSpec
CONSTANTS
    StartW = 5
    StopW = 2
    DischargeStartW <- MCDischargeStartW
    DischargeStopW <- MCDischargeStopW
    StartDuration = 2
    StopDuration = 1
    Cooldown = 5
    PauseDurations <- MCPauseDurations
    Surpluses <- MCSurpluses
    Fields = {"delivered", "returned", "voltage"}
    Delivered = "delivered"
    Returned = "returned"
    MeterValues = {0, 1}
    StaleTimeout = 1
    DeadTimeout = 2
    LastSecond = 3
    Productions <- MCProductions
    InverterReports <- MCInverterReports
    PollIntervals <- MCPollIntervals
    MaxBackoff = 3
    LastMoment = 3
INVARIANTS TypeOK TimersMatchState
PROPERTIES
    StartsAreSustained NoRestartWhileResting NoDirectReversal
    SurplusIsFollowed PauseEnds CooldownEnds
    LossIsTold ShutdownEnds
CHECK_DEADLOCK FALSE
