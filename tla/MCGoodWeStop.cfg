SPECIFICATION BridgeSpec
CONSTANTS
    SetpointWatts <- MCSetpointWatts
    PowersRead = {200}
    InverterMaxW = 5000
    LimitMinChangeW = 150
    SettlePowerW = 100
    Interval = 1
    Refresh = 2
    Faults = {}
    MaxCoroutines = 2
INVARIANT StopStops
