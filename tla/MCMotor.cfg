CONSTANTS
    NFreq = 2
    Samples <- MCSamples
    MaxDuty = 1
    Over = 1
    NaN = NaN
    Targets = {"finite", "infinite", "nan"}
    ErrorMod = 2
SPECIFICATION MCFairSpec
INVARIANTS
    BoundedDrive
    OffIsRest
    ErrorCountExact
    ResultExact
    OneOwner
PROPERTIES
    DisableTakesEffect
    SweepGoesOn
