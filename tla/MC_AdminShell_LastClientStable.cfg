CONSTANTS
    UserNames <- MC_UserNames
    Idents <- MC_Idents
    IsDigit <- MC_IsDigit
    IntValue <- MC_IntValue
    ValueError = ValueError
    Numbers = {n1}
    MaxClients = 2
    NonJsonBodies = TRUE
    KeyInEnv = TRUE
    CarrierNames = {"telnyx"}

SPECIFICATION Spec

INVARIANT LastClientStable
