\* Every combination of readings and every outcome of the model call.
SPECIFICATION Spec
CONSTANTS
    clean = clean
    undecodable = undecodable
    MinDeliveryChars = 2
    MaxDeliveryChars = 3
    MaxLayers = 2
    Undecodable = undecodable
    Signatures <- MC_Signatures
    SeverityOf <- MC_SeverityOf
    Texts <- MC_Texts
    Matches <- MC_Matches
    Kinds <- MC_Kinds
    Deliveries <- MC_Deliveries
INVARIANTS
    TypeOK
    GoNeedsEvidence
    HostileIsRefunded
    VerdictIsFunction
    
    TokensScreened
    ScoresAgree
PROPERTY Terminates
CHECK_DEADLOCK FALSE
