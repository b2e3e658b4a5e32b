CONSTANTS
    UserNames <- MC_UserNames
    Idents <- MC_Idents
    IsDigit <- MC_IsDigit
    IntValue <- MC_IntValue
    ValueError = ValueError
    Numbers = {n1}
    MaxClients = 1
    NonJsonBodies = TRUE
    KeyInEnv = FALSE
    CarrierNames = {"telnyx"}

SPECIFICATION Spec

INVARIANT KeyCached
