CONSTANTS
    MaxTravel = 7
    MaxCount = 14
    StepsPerPeriod = 1
SPECIFICATION Spec
INVARIANTS
    TornReadIsAPosition
    CountTracksRotor
    Congruent
