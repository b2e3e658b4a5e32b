CONSTANTS
    AsciiDigits <- MC_AsciiDigits
    OtherDigits <- MC_OtherDigits
    Others <- MC_Others
    Space <- MC_Space
    MinDigits = 2
    MaxDigits = 3
    MaxRaw = 5
SPECIFICATION Spec
INVARIANTS TypeOK ParseMatchesReference
