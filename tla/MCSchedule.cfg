CONSTANTS
    W = 40
    HB = 2
    Delay = 6
    MaxTurn = 3
    MaxPub = 1
    Cap = 90
SPECIFICATION ScheduleSpec
INVARIANTS
    TelemetryOnTime
PROPERTIES
    HeartbeatPaced
    TelemetryNotEarly
