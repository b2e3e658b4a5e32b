CONSTANTS
    UserNames <- MC_UserNames
    Idents <- MC_LastIdents
    IsDigit <- MC_LastIsDigit
    IntValue <- MC_LastIntValue
    ValueError = ValueError
    Numbers = {n1}
    MaxClients = 2
    NonJsonBodies = TRUE
    KeyInEnv = FALSE
    CarrierNames = {"telnyx"}

SPECIFICATION Spec

INVARIANTS
    TypeOK
    LastClientNamesCreated
