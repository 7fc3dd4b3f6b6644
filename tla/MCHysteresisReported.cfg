SPECIFICATION Spec
CONSTANTS
    StartW = 5
    StopW = 2
    DischargeStartW <- MCDischargeStartW
    DischargeStopW <- MCDischargeStopW
    StartDuration = 2
    StopDuration = 1
    Cooldown = 5
    PauseDurations <- MCPauseDurations
    Surpluses <- MCSurpluses
PROPERTIES ReportedFlowSustained
