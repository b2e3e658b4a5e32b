CONSTANTS
    UserNames <- MC_UserNames
    Idents <- MC_Idents
    IsDigit <- MC_IsDigit
    IntValue <- MC_IntValue
    ValueError = ValueError
    Numbers = {n1, n2}
    MaxClients = 2
    MaxBatch = 3
    KeyInEnv = FALSE

SPECIFICATION Spec

INVARIANT SkippedNumbersAreAssigned
