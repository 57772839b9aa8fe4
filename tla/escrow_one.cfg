\* One job, every verdict, two deliveries, key rotation, a second deployment,
\* amounts at and beyond type(uint128).max, and a provider that is a contract.
SPECIFICATION Spec
CONSTANTS
    Accounts = {buyer, provider}
    Contracts = {provider}
    Owners = {buyer}
    Zero = zero
    Self = self
    Signers = {v1, v2}
    BriefHashes = {b1}
    DeliveryHashes = {d1, d2}
    NoHash = nohash
    Domains = {here, elsewhere}
    Domain = here
    Values = {0, 2, 3}
    MaxAmount = 2
    MaxDeliveryWindow = 1
    MaxDecisionTTL = 1
    MaxTime = 3
    MaxJobs = 1
    MaxSignatures = 1
INVARIANTS
    TypeOK
    PaidAsJudged
    StageTellsHistory
    
CHECK_DEADLOCK FALSE
